---- MODULE Spec2Model ----
(***************************************************************************)
(* Model of the privl1 cryptographic core:                                 *)
(*   - NullifierSet (crates/crypto/src/nullifier.rs)                       *)
(*   - IncrementalMerkleTree / MerkleProof (crates/crypto/src/merkle.rs)   *)
(*   - PedersenCommitment, Note, key and nullifier derivation              *)
(*     (commitment.rs, note.rs, keys.rs, nullifier.rs)                     *)
(* The hash is modelled as collision-free: a digest is the pair of its     *)
(* inputs, a 32-byte leaf value v is the one-element tuple <<v>>.          *)
(***************************************************************************)
EXTENDS Integers, Sequences, FiniteSets, TLC

\* ------------------------------------------------------------------ bounds
\* number of distinct nullifier values the callers draw from
NumNullifiers == 3
\* longest nullifier list handed to spend_batch / restore
MaxBatch == 2
\* depth of the tree (TREE_DEPTH = 32 in merkle.rs, scaled down)
TREE_DEPTH == 3
\* number of distinct 32-byte leaf values; value 0 is the all-zero leaf
NumLeafValues == 3
\* number of successful appends explored on the single tree
MaxAppends == 8
\* number of successful appends explored while a proof is held
MaxProofAppends == 4
\* number of successful appends explored on each of two trees side by side
MaxPairAppends == 3
\* order of the commitment group (the Pallas group, scaled down)
GroupOrder == 7
\* number of distinct nullifier deriving keys
NumKeys == 2
\* largest note value
MaxValue == 1
\* number of distinct asset ids
NumAssets == 2
\* largest randomness handed to Note::with_randomness
MaxRandomness == 1
\* tree positions are p + 256 * k for p, k in 0..MaxPosition
MaxPosition == 1
\* number of distinct nullifier values spent in the persistent set
NumPersistent == 4
\* number of distinct seeds handed to FullKeys::from_seed
NumSeeds == 2
\* number of distinct owner public keys; owner 0 is the identity point
NumOwners == 2
\* largest value of the value type (u64::MAX, scaled down; the group order
\* stays above twice this, as the Pallas order is above 2^65)
U64Max == 3
\* number of distinct messages handed to sign and verify
NumMessages == 2
\* number of distinct verification keys (by key data)
NumVks == 2
\* most spend proofs, and most output proofs, of one transaction
MaxTxProofs == 1
\* most leaves staged in a BatchMerkleTree at once
MaxStaged == 2
\* largest pool id (u32::MAX, scaled down)
U32Max == 1
\* largest value of T::Balance (scaled down)
BalanceMax == 1000000
\* largest amount handed to an extrinsic
MaxAmount == 3
\* most tokens the pools hold together
MaxLiquidity == 5
\* the same while several pools exist
MaxSharedLiquidity == 3

\* --------------------------------------------------------------- constants
\* bytes of a scalar, of a compressed point, of a digest and of an asset id
ByteLen == 32
\* bytes of a u64
U64Len == 8
\* bytes of the tag of an EncryptedNote
TagLen == 16
\* the swap fee: 9975 of 10000 parts of amount_in count
FeeNumerator == 9975
FeeDenominator == 10000
\* the divisor of the first liquidity: (amount0 + amount1) / 2
FirstLiquidityDivisor == 2
\* number of doublings that take the generator G to H
HDoublings == 128

VARIABLES
    spent,          \* NullifierSet.spent
    last,           \* the last NullifierSet call: operation, arguments, result, set before
    spendAccepted,  \* per nullifier: number of spend calls that returned Ok for it
    batchAccepted,  \* per nullifier: number of spend_batch calls that returned Ok and named it
    tree,           \* IncrementalMerkleTree: num_leaves, frontier
    leaves,         \* the leaves appended to tree so far, in order
    positions,      \* the positions the successful appends returned, in order
    lastAppend,     \* the last append call: leaf, result, tree before
    held,           \* the last prove call: position, result, root and leaf count at that time
    treeB,          \* a second IncrementalMerkleTree
    leavesB,        \* the leaves appended to treeB so far, in order
    derived,        \* the last two derive_nullifier calls: key, note, position, result
    restored,       \* the last export and restore: set exported, list saved, set restored
    pset,           \* PersistentNullifierSet.set.spent
    lastRoot,       \* the last root_hash call: members, iteration order, digest
    oracle,         \* the digests seen so far, each with whether it is a canonical scalar
    fullKeys,       \* per seed: the results of the from_seed calls made with it
    curNote,        \* a Note, once one is constructed
    seen,           \* the results commitment() has returned for curNote so far
    homo,           \* the last sum of two commitments: openings, sum, commitment to the sums
    sigCheck,       \* the last sign and verify: signer, message signed, key and message verified
    decrypted,      \* the last encrypt and decrypt: note, recipient, reader, tampering, result
    codec,          \* the last encode and decode: type, values, bytes, results
    vks,            \* ProofVerifier.vks: verification key by id
    registered,     \* the ids register_vk has been called with so far
    lastVerify,     \* the last call on the ProofVerifier: arguments, registry before, result
    batch,          \* the BatchMerkleTree: tree and pending_leaves
    lastBatch,      \* the last call on the BatchMerkleTree: the batch before, result
    store,          \* the PersistentNullifierSet of one db_path: open handle, disk, history
    amm,            \* the pallet storage: Pools, LpBalances, NextPoolId
    lastCall        \* the last extrinsic of the pallet: call, arguments, result

vars == <<spent, last, spendAccepted, batchAccepted,
          tree, leaves, positions, lastAppend, held, treeB, leavesB,
          derived, restored, pset, lastRoot, oracle, fullKeys, curNote, seen,
          homo, sigCheck, decrypted, codec, vks, registered, lastVerify,
          batch, lastBatch, store, amm, lastCall>>

nullifierVars == <<spent, last, spendAccepted, batchAccepted>>
merkleVars == <<tree, leaves, positions, lastAppend, held, treeB, leavesB>>
exportVars == <<restored>>
persistVars == <<pset, lastRoot>>
deriveVars == <<derived>>
keyVars == <<oracle, fullKeys>>
noteVars == <<curNote, seen>>
cryptoVars == <<exportVars, persistVars, deriveVars, keyVars, noteVars>>
callVars == <<homo, sigCheck, decrypted, codec>>
verifierVars == <<vks, registered, lastVerify>>
batchVars == <<batch, lastBatch>>
durableVars == <<store>>
ammVars == <<amm, lastCall>>
protocolVars == <<callVars, verifierVars, batchVars, durableVars, ammVars>>

\* ------------------------------------------------------------- NullifierSet
Nullifiers == 1..NumNullifiers

RECURSIVE SeqsUpTo(_, _)
SeqsUpTo(S, n) ==
    IF n = 0 THEN {<<>>}
    ELSE LET shorter == SeqsUpTo(S, n - 1)
         IN  shorter \cup {Append(s, x) : s \in {t \in shorter : Len(t) = n - 1}, x \in S}

Batches == SeqsUpTo(Nullifiers, MaxBatch)

Range(s) == {s[i] : i \in DOMAIN s}

HasDuplicates(s) == \E i, j \in DOMAIN s : i # j /\ s[i] = s[j]

Bump(c) == IF c < 2 THEN c + 1 ELSE c

\* NullifierSet::is_spent
is_spent(set, n) == n \in set

\* NullifierSet::spend without the is_spent check
spend_unchecked(set, n) == [ok |-> TRUE, err |-> "none", spent |-> set \cup {n}]

\* NullifierSet::spend
spend(set, n) ==
    IF is_spent(set, n)
    THEN [ok |-> FALSE, err |-> "OperationFailed", spent |-> set]
    ELSE [ok |-> TRUE, err |-> "none", spent |-> set \cup {n}]

\* the insert loop of spend_batch run over ns[i..]
RECURSIVE insert_all(_, _, _)
insert_all(set, ns, i) ==
    IF i > Len(ns) THEN set ELSE insert_all(set \cup {ns[i]}, ns, i + 1)

\* spend_batch with check and insert fused in one loop: stops at the first
\* spent nullifier, keeping what it inserted before
RECURSIVE spend_batch_fused(_, _, _)
spend_batch_fused(set, ns, i) ==
    IF i > Len(ns) THEN [ok |-> TRUE, err |-> "none", spent |-> set]
    ELSE IF is_spent(set, ns[i])
         THEN [ok |-> FALSE, err |-> "OperationFailed", spent |-> set]
         ELSE spend_batch_fused(set \cup {ns[i]}, ns, i + 1)

\* spend_batch as one fused loop over the whole list
spend_batch_fused_all(set, ns) == spend_batch_fused(set, ns, 1)

\* spend_batch with the check loop left out
spend_batch_unchecked(set, ns) ==
    [ok |-> TRUE, err |-> "none", spent |-> insert_all(set, ns, 1)]

\* NullifierSet::spend_batch: first loop checks every element against the set,
\* second loop inserts every element
spend_batch(set, ns) ==
    IF \E i \in DOMAIN ns : is_spent(set, ns[i])
    THEN [ok |-> FALSE, err |-> "OperationFailed", spent |-> set]
    ELSE [ok |-> TRUE, err |-> "none", spent |-> insert_all(set, ns, 1)]

\* restore that replaces the set by the list
restore_replace(set, ns) == Range(ns)

\* NullifierSet::restore
restore(set, ns) == set \cup Range(ns)

\* NullifierSet::new
NullifierSet_new == {}

\* every order a HashSet may iterate its elements in
Orderings(set) ==
    {s \in SeqsUpTo(set, Cardinality(set)) : Len(s) = Cardinality(set) /\ Range(s) = set}

\* all_nullifiers that loses the first element the iteration yields
all_nullifiers_skip_first(set) ==
    IF set = {} THEN {<<>>} ELSE {Tail(s) : s \in Orderings(set)}

\* NullifierSet::all_nullifiers: the lists it may return (the elements once
\* each, in the iteration order of the HashSet)
all_nullifiers(set) == Orderings(set)

\* the error kinds of the crate
CryptoError == {"InvalidKey", "InvalidCommitment", "InvalidProof", "MerkleError",
                "SerializationError", "OperationFailed"}

NoCall == [op |-> "none", args |-> <<>>, ok |-> TRUE, err |-> "none", pre |-> {}]

Spend(n) ==
    LET r == spend(spent, n)
    IN  /\ spent' = r.spent
        /\ last' = [op |-> "spend", args |-> <<n>>, ok |-> r.ok, err |-> r.err, pre |-> spent]
        /\ spendAccepted' = IF r.ok
                            THEN [spendAccepted EXCEPT ![n] = Bump(@)]
                            ELSE spendAccepted
        /\ UNCHANGED batchAccepted
        /\ UNCHANGED <<merkleVars, cryptoVars, protocolVars>>

SpendBatch(ns) ==
    LET r == spend_batch(spent, ns)
    IN  /\ spent' = r.spent
        /\ last' = [op |-> "spend_batch", args |-> ns, ok |-> r.ok, err |-> r.err, pre |-> spent]
        /\ batchAccepted' = IF r.ok
                            THEN [n \in Nullifiers |->
                                    IF n \in Range(ns) THEN Bump(batchAccepted[n])
                                                       ELSE batchAccepted[n]]
                            ELSE batchAccepted
        /\ UNCHANGED spendAccepted
        /\ UNCHANGED <<merkleVars, cryptoVars, protocolVars>>

Restore(ns) ==
    /\ spent' = restore(spent, ns)
    /\ last' = [op |-> "restore", args |-> ns, ok |-> TRUE, err |-> "none", pre |-> spent]
    /\ UNCHANGED <<spendAccepted, batchAccepted>>
    /\ UNCHANGED <<merkleVars, cryptoVars, protocolVars>>

SpendAny == \E n \in Nullifiers : Spend(n)
SpendBatchAny == \E ns \in Batches : SpendBatch(ns)
RestoreAny == \E ns \in Batches : Restore(ns)

NoExport == [done |-> FALSE, from |-> {}, saved |-> <<>>, spent |-> {}]

\* let saved = set.all_nullifiers(); let mut new_set = NullifierSet::new();
\* new_set.restore(saved)
ExportRestore ==
    \E saved \in all_nullifiers(spent) :
        /\ restored' = [done |-> TRUE, from |-> spent, saved |-> saved,
                        spent |-> restore(NullifierSet_new, saved)]
        /\ UNCHANGED <<nullifierVars, merkleVars, persistVars, deriveVars, keyVars, noteVars, protocolVars>>

\* ------------------------------------------------- IncrementalMerkleTree
\* a 32-byte leaf value
Leaf(v) == <<v>>
LeafNodes == {Leaf(v) : v \in 0..(NumLeafValues - 1)}

\* merkle_hash with its operands sorted, so that the order of the two children is lost
merkle_hash_unordered(left, right) ==
    IF left = right THEN <<left, right>>
    ELSE LET first == CHOOSE x \in {left, right} : TRUE
             second == CHOOSE x \in {left, right} : x # first
         IN  <<first, second>>

\* hash::merkle_hash: Blake3 over left || right, collision-free
merkle_hash(left, right) == <<left, right>>

\* IncrementalMerkleTree::new, the empty_hashes table
RECURSIVE empty_hashes(_)
empty_hashes(level) ==
    IF level = 0 THEN Leaf(0)
    ELSE merkle_hash(empty_hashes(level - 1), empty_hashes(level - 1))

\* IncrementalMerkleTree::new
NewTree == [num_leaves |-> 0, frontier |-> <<>>]

\* 1u64 << TREE_DEPTH
Capacity == 2 ^ TREE_DEPTH

\* Vec::truncate
Truncate(s, n) == IF n < Len(s) THEN SubSeq(s, 1, n) ELSE s

\* (x >> k) & 1
Bit(x, k) == (x \div (2 ^ k)) % 2

\* the for loop of update_frontier from `level` on; yields new_frontier
RECURSIVE frontier_walk(_, _, _, _)
frontier_walk(t, current, index, level) ==
    IF level >= TREE_DEPTH THEN <<>>
    ELSE IF index % 2 = 0 THEN <<current>>
    ELSE LET sibling == IF level < Len(t.frontier) THEN t.frontier[level + 1]
                                                   ELSE empty_hashes(level)
         IN  frontier_walk(t, merkle_hash(sibling, current), index \div 2, level + 1)

\* the number of merkle_hash calls the for loop of update_frontier makes from
\* `level` on
RECURSIVE hash_calls(_, _)
hash_calls(index, level) ==
    IF level >= TREE_DEPTH THEN 0
    ELSE IF index % 2 = 0 THEN 0
    ELSE 1 + hash_calls(index \div 2, level + 1)

\* update_frontier that truncates the frontier and forgets to extend it
update_frontier_truncate_only(t, leaf) ==
    LET new_frontier == frontier_walk(t, leaf, t.num_leaves, 0)
    IN  IF new_frontier # <<>>
        THEN Truncate(t.frontier, Len(new_frontier) - 1)
        ELSE t.frontier

\* update_frontier that extends the frontier without truncating it
update_frontier_no_truncate(t, leaf) ==
    LET new_frontier == frontier_walk(t, leaf, t.num_leaves, 0)
    IN  t.frontier \o new_frontier

\* IncrementalMerkleTree::update_frontier; yields the new frontier
update_frontier(t, leaf) ==
    LET new_frontier == frontier_walk(t, leaf, t.num_leaves, 0)
    IN  IF new_frontier # <<>>
        THEN Truncate(t.frontier, Len(new_frontier) - 1) \o new_frontier
        ELSE t.frontier

\* append that hands back the count after the insertion
append_off_by_one(t, leaf) ==
    IF t.num_leaves >= Capacity
    THEN [ok |-> FALSE, err |-> "MerkleError(Tree is full)", position |-> -1, tree |-> t]
    ELSE [ok |-> TRUE, err |-> "none", position |-> t.num_leaves + 1,
          tree |-> [num_leaves |-> t.num_leaves + 1, frontier |-> update_frontier(t, leaf)]]

\* append whose capacity check runs after the frontier update
append_late_check(t, leaf) ==
    IF t.num_leaves >= Capacity
    THEN [ok |-> FALSE, err |-> "MerkleError(Tree is full)", position |-> -1,
          tree |-> [num_leaves |-> t.num_leaves, frontier |-> <<leaf>>]]
    ELSE [ok |-> TRUE, err |-> "none", position |-> t.num_leaves,
          tree |-> [num_leaves |-> t.num_leaves + 1, frontier |-> update_frontier(t, leaf)]]

\* IncrementalMerkleTree::append
append(t, leaf) ==
    IF t.num_leaves >= Capacity
    THEN [ok |-> FALSE, err |-> "MerkleError(Tree is full)", position |-> -1, tree |-> t]
    ELSE [ok |-> TRUE, err |-> "none", position |-> t.num_leaves,
          tree |-> [num_leaves |-> t.num_leaves + 1, frontier |-> update_frontier(t, leaf)]]

\* the value standing for a panic (index out of range, usize underflow)
Panic == <<>>

\* the for loop of root() from `level` on
RECURSIVE root_walk(_, _, _)
root_walk(t, current_hash, level) ==
    IF level >= TREE_DEPTH THEN current_hash
    ELSE LET current_index == t.num_leaves - 1
             next ==
                IF level < Len(t.frontier) - 1
                THEN IF Bit(current_index, level + 1) = 1
                     THEN LET sibling == IF level + 1 < Len(t.frontier)
                                         THEN t.frontier[level + 2]
                                         ELSE empty_hashes(level + 1)
                          IN  merkle_hash(sibling, current_hash)
                     ELSE current_hash
                ELSE LET sibling == empty_hashes(level)
                     IN  IF Bit(current_index, level) = 0
                         THEN merkle_hash(current_hash, sibling)
                         ELSE merkle_hash(sibling, current_hash)
         IN  root_walk(t, next, level + 1)

\* IncrementalMerkleTree::root
root(t) ==
    IF t.num_leaves = 0 THEN empty_hashes(TREE_DEPTH)
    ELSE IF Len(t.frontier) = 0 THEN Panic
    ELSE root_walk(t, t.frontier[1], 0)

\* IncrementalMerkleTree::get_node; cached_roots is never written, so the
\* cache lookup always misses
get_node(t, level, index) ==
    IF level < Len(t.frontier) /\ index = (t.num_leaves - 1) \div (2 ^ level)
    THEN t.frontier[level + 1]
    ELSE empty_hashes(level)

\* current_index ^ 1
FlipLowBit(x) == IF x % 2 = 0 THEN x + 1 ELSE x - 1

\* vec![[0u8; 32]; TREE_DEPTH + 1].len()
EmptyHashesLen == TREE_DEPTH + 1

\* root() reads frontier[0], frontier.len() - 1, frontier[level + 1] and
\* empty_hashes[..] within range
root_in_range(t) ==
    IF t.num_leaves = 0 THEN TREE_DEPTH < EmptyHashesLen
    ELSE /\ 0 < Len(t.frontier)
         /\ \A level \in 0..(TREE_DEPTH - 1) :
                IF level < Len(t.frontier) - 1
                THEN Bit(t.num_leaves - 1, level + 1) = 1 =>
                        (level + 1 < Len(t.frontier) \/ level + 1 < EmptyHashesLen)
                ELSE level < EmptyHashesLen

\* get_node(level, index) reads num_leaves - 1, frontier[level] and
\* empty_hashes[level] within range
get_node_in_range(t, level, index) ==
    /\ level < Len(t.frontier) => t.num_leaves >= 1
    /\ IF level < Len(t.frontier) /\ index = (t.num_leaves - 1) \div (2 ^ level)
       THEN level < Len(t.frontier)
       ELSE level < EmptyHashesLen

\* prove(position) reads within range at every level
prove_in_range(t, position) ==
    position < t.num_leaves =>
        \A level \in 0..(TREE_DEPTH - 1) :
            LET sibling_index == FlipLowBit(position \div (2 ^ level))
            IN  IF sibling_index < t.num_leaves
                THEN get_node_in_range(t, level, sibling_index)
                ELSE level < EmptyHashesLen

\* the for loop of prove() from `level` on; yields the rest of the path
RECURSIVE prove_walk(_, _, _)
prove_walk(t, current_index, level) ==
    IF level >= TREE_DEPTH THEN <<>>
    ELSE LET sibling_index == FlipLowBit(current_index)
             sibling == IF sibling_index < t.num_leaves
                        THEN get_node(t, level, sibling_index)
                        ELSE empty_hashes(level)
         IN  <<sibling>> \o prove_walk(t, current_index \div 2, level + 1)

\* prove whose bound check lets position = num_leaves through
prove_off_by_one(t, position) ==
    IF position > t.num_leaves
    THEN [ok |-> FALSE, err |-> "MerkleError(Position out of bounds)", proof |-> [path |-> <<>>, position |-> position]]
    ELSE [ok |-> TRUE, err |-> "none",
          proof |-> [path |-> prove_walk(t, position, 0), position |-> position]]

\* IncrementalMerkleTree::prove
prove(t, position) ==
    IF position >= t.num_leaves
    THEN [ok |-> FALSE, err |-> "MerkleError(Position out of bounds)", proof |-> [path |-> <<>>, position |-> position]]
    ELSE [ok |-> TRUE, err |-> "none",
          proof |-> [path |-> prove_walk(t, position, 0), position |-> position]]

\* the for loop of MerkleProof::verify from the i-th sibling on
RECURSIVE verify_walk(_, _, _, _)
verify_walk(path, current, index, i) ==
    IF i > Len(path) THEN current
    ELSE verify_walk(path,
                     IF index % 2 = 0 THEN merkle_hash(current, path[i])
                                      ELSE merkle_hash(path[i], current),
                     index \div 2, i + 1)

\* verify that leaves the first sibling of the path out of the walk
verify_skip_sibling(proof, leaf, r) ==
    IF Len(proof.path) # TREE_DEPTH THEN FALSE
    ELSE verify_walk(proof.path, merkle_hash(leaf, leaf), proof.position \div 2, 2) = r

\* verify without the final comparison against the root
verify_any_root(proof, leaf, r) == Len(proof.path) = TREE_DEPTH

\* MerkleProof::verify
verify(proof, leaf, r) ==
    IF Len(proof.path) # TREE_DEPTH THEN FALSE
    ELSE verify_walk(proof.path, leaf, proof.position, 1) = r

\* ------------------------------------------------------ hashing and bytes
\* the little-endian bytes of x, n of them (u64::to_le_bytes, Scalar::to_bytes)
RECURSIVE to_le_bytes(_, _)
to_le_bytes(x, n) ==
    IF n = 0 THEN <<>> ELSE <<x % 256>> \o to_le_bytes(x \div 256, n - 1)

\* [b; 32]
Repeat(b) == [i \in 1..ByteLen |-> b]

\* DomainSeparatedHasher::new: the domain, then a zero byte
DomainSeparatedHasher(domain) == <<domain, 0>>

\* DomainSeparatedHasher::update
update(hasher, data) == hasher \o data

\* DomainSeparatedHasher::finalize: the digest of a collision-free hash is
\* the one-element tuple of the bytes that were hashed
finalize(hasher) == <<hasher>>

\* ------------------------------------------------------ PedersenCommitment
\* a group element is its discrete logarithm to the base G, in 0..GroupOrder-1
Generator == 1 % GroupOrder

RECURSIVE double_times(_, _)
double_times(point, n) ==
    IF n = 0 THEN point ELSE double_times((point + point) % GroupOrder, n - 1)

\* PedersenCommitment::new: g is the generator, h is g doubled 128 times
PedersenG == Generator
PedersenH == double_times(Generator, HDoublings)

\* PedersenCommitment::commit_with_blinding: value * G + blinding * H
commit_with_blinding(value, blinding) ==
    ((value % GroupOrder) * PedersenG + (blinding % GroupOrder) * PedersenH) % GroupOrder

\* Commitment::to_bytes: 32 zero bytes whatever the point
Commitment_to_bytes(point) == Repeat(0)

\* Add for Commitment with the body of Sub
Commitment_add_as_sub(c1, c2) == (c1 - c2 + GroupOrder) % GroupOrder

\* Add for Commitment: the sum of the two points
Commitment_add(c1, c2) == (c1 + c2) % GroupOrder

\* Sub for Commitment: the difference of the two points
Commitment_sub(c1, c2) == (c1 - c2 + GroupOrder) % GroupOrder

\* Add for pallas::Scalar: the field has the order of the group
Scalar_add(r1, r2) == (r1 + r2) % GroupOrder

\* a + b on u64: a debug build panics on overflow, a release build wraps
u64_add(a, b, build) ==
    IF a + b <= U64Max THEN [ok |-> TRUE, value |-> a + b]
    ELSE IF build = "debug" THEN [ok |-> FALSE, value |-> 0]
    ELSE [ok |-> TRUE, value |-> (a + b) % (U64Max + 1)]

NoSum == [done |-> FALSE, v1 |-> 0, r1 |-> 0, v2 |-> 0, r2 |-> 0, sum_comm |-> 0,
          sum_value |-> [ok |-> TRUE, value |-> 0], sum_blinding |-> 0]

\* one comparison: comm1 + comm2 for two commitments, and value1 + value2,
\* blind1 + blind2 as the caller computes them
CommitSum ==
    \E v1 \in 0..U64Max, v2 \in 0..U64Max, r1 \in 0..(GroupOrder - 1),
       r2 \in 0..(GroupOrder - 1), build \in {"debug", "release"} :
        /\ ~homo.done
        /\ homo' = [done |-> TRUE, v1 |-> v1, r1 |-> r1, v2 |-> v2, r2 |-> r2,
                    sum_comm |-> Commitment_add(commit_with_blinding(v1, r1),
                                                commit_with_blinding(v2, r2)),
                    sum_value |-> u64_add(v1, v2, build),
                    sum_blinding |-> Scalar_add(r1, r2)]
        /\ UNCHANGED <<sigCheck, decrypted, codec>>
        /\ UNCHANGED <<nullifierVars, merkleVars, cryptoVars, verifierVars, batchVars, durableVars, ammVars>>

\* ------------------------------------------------------------------ Point
\* Point::identity
Identity == 0

\* Point::to_bytes: 32 zero bytes whatever the point
Point_to_bytes(point) == Repeat(0)

\* Point::from_bytes: the identity whatever the bytes
Point_from_bytes(bytes) == [ok |-> TRUE, err |-> "none", value |-> Identity]

\* PublicKey::to_bytes
PublicKey_to_bytes(pk) == Point_to_bytes(pk)

\* PublicKey::from_bytes
PublicKey_from_bytes(bytes) == Point_from_bytes(bytes)

\* ------------------------------------------------------------------- Note
Values == 0..MaxValue
Assets == 1..NumAssets
None == [some |-> FALSE, point |-> 0]
Some(point) == [some |-> TRUE, point |-> point]

Scalars == 0..(GroupOrder - 1)
Points == 0..(GroupOrder - 1)
Owners == 0..(NumOwners - 1)

\* Option<Vec<u8>>
NoMemo == [some |-> FALSE, bytes |-> <<>>]
SomeMemo(bytes) == [some |-> TRUE, bytes |-> bytes]
Memos == {<<>>, <<1>>}

\* Note::new, randomness being what the random generator returned
new(value, commitment_, asset_id, randomness) ==
    [value |-> value, asset_id |-> asset_id,
     owner |-> PublicKey_from_bytes(Repeat(0)).value,
     randomness |-> randomness, memo |-> NoMemo,
     cached_commitment |-> Some(commitment_)]

\* Note::new_with_owner, randomness being what the random generator returned
new_with_owner(value, owner, asset_id, randomness) ==
    [value |-> value, asset_id |-> asset_id, owner |-> owner,
     randomness |-> randomness, memo |-> NoMemo, cached_commitment |-> None]

\* Note::with_randomness
with_randomness(value, owner, asset_id, randomness) ==
    [value |-> value, asset_id |-> asset_id, owner |-> owner,
     randomness |-> randomness, memo |-> NoMemo, cached_commitment |-> None]

\* Note::with_memo
with_memo(n, memo) == [n EXCEPT !.memo = SomeMemo(memo)]

\* Note::dummy
dummy == [value |-> 0, asset_id |-> 0,
          owner |-> PublicKey_from_bytes(Repeat(0)).value,
          randomness |-> 0, memo |-> NoMemo, cached_commitment |-> None]

\* Note::is_dummy
is_dummy(n) == n.value = 0 /\ n.randomness = 0

\* serialize, then deserialize: the owner is written by Point::to_bytes and
\* read by Point::from_bytes; cached_commitment is #[serde(skip)], so it is
\* not written and comes back as the default, None
serde_round_trip(n) ==
    [n EXCEPT !.owner = Point_from_bytes(Point_to_bytes(n.owner)).value,
              !.cached_commitment = None]

\* Note::commitment: the cached commitment if there is one, else a fresh
\* commitment to (value, randomness); paired with the asset id
commitment(note) ==
    [inner |-> IF note.cached_commitment.some
               THEN note.cached_commitment.point
               ELSE commit_with_blinding(note.value, note.randomness),
     asset_id |-> note.asset_id]

\* NoteCommitment::to_bytes: the bytes of the point, then the asset id
NoteCommitment_to_bytes(nc) == Commitment_to_bytes(nc.inner) \o Repeat(nc.asset_id)

NoNote == [value |-> 0, asset_id |-> 0, owner |-> Identity, randomness |-> 0,
           memo |-> NoMemo, cached_commitment |-> None, built |-> FALSE]

\* a constructor call: the note is replaced, nothing has been asked of it yet
Construct(n) ==
    /\ curNote' = [value |-> n.value, asset_id |-> n.asset_id, owner |-> n.owner,
                   randomness |-> n.randomness, memo |-> n.memo,
                   cached_commitment |-> n.cached_commitment, built |-> TRUE]
    /\ seen' = {}
    /\ UNCHANGED <<nullifierVars, merkleVars, exportVars, persistVars, deriveVars, keyVars, protocolVars>>

NoteNew ==
    \E value \in Values, c \in Points, asset_id \in Assets, randomness \in Scalars :
        Construct(new(value, c, asset_id, randomness))

NoteNewWithOwner ==
    \E value \in Values, owner \in Owners, asset_id \in Assets, randomness \in Scalars :
        Construct(new_with_owner(value, owner, asset_id, randomness))

NoteWithRandomness ==
    \E value \in Values, owner \in Owners, asset_id \in Assets, randomness \in Scalars :
        Construct(with_randomness(value, owner, asset_id, randomness))

NoteDummy == Construct(dummy)

\* note = note.with_memo(memo)
NoteWithMemo ==
    \E memo \in Memos :
        /\ curNote.built
        /\ curNote' = [with_memo(curNote, memo) EXCEPT !.built = TRUE]
        /\ UNCHANGED seen
        /\ UNCHANGED <<nullifierVars, merkleVars, exportVars, persistVars, deriveVars, keyVars, protocolVars>>

\* note.commitment()
NoteCommitment ==
    /\ curNote.built
    /\ seen' = seen \cup {commitment(curNote)}
    /\ UNCHANGED curNote
    /\ UNCHANGED <<nullifierVars, merkleVars, exportVars, persistVars, deriveVars, keyVars, protocolVars>>

\* the note is serialized and read back
NoteRoundTrip ==
    /\ curNote.built
    /\ curNote' = [serde_round_trip(curNote) EXCEPT !.built = TRUE]
    /\ UNCHANGED seen
    /\ UNCHANGED <<nullifierVars, merkleVars, exportVars, persistVars, deriveVars, keyVars, protocolVars>>

\* ------------------------------------------------------ nullifier derivation
Keys == 1..NumKeys
Positions == {p + 256 * k : p \in 0..MaxPosition, k \in 0..MaxPosition}

\* derive_nullifier that hashes the low byte of the position only
derive_nullifier_low_byte(nk, note, position) ==
    finalize(update(update(update(DomainSeparatedHasher("PRIVL1_NULLIFIER"),
                                  to_le_bytes(nk, ByteLen)),
                           NoteCommitment_to_bytes(commitment(note))),
                    to_le_bytes(position, 1)))

\* NullifierDerivingKey::derive_nullifier
derive_nullifier(nk, note, position) ==
    finalize(update(update(update(DomainSeparatedHasher("PRIVL1_NULLIFIER"),
                                  to_le_bytes(nk, ByteLen)),
                           NoteCommitment_to_bytes(commitment(note))),
                    to_le_bytes(position, U64Len)))

\* the notes handed to derive_nullifier
DeriveNotes ==
    {with_randomness(v, Identity, a, r) : v \in Values, a \in Assets, r \in 0..MaxRandomness}

\* one call of derive_nullifier; two calls are made and compared
Derive ==
    \E nk \in Keys, note \in DeriveNotes, position \in Positions :
        /\ Len(derived) < 2
        /\ derived' = <<[nk |-> nk, note |-> note, position |-> position,
                         nullifier |-> derive_nullifier(nk, note, position)]>>
                      \o SubSeq(derived, 1, IF Len(derived) > 0 THEN 1 ELSE 0)
        /\ UNCHANGED <<nullifierVars, merkleVars, exportVars, persistVars, keyVars, noteVars, protocolVars>>

\* -------------------------------------------------- PersistentNullifierSet
PNullifiers == 1..NumPersistent

\* Nullifier::as_bytes of the nullifier [n; 32]
as_bytes(n) == Repeat(n)

\* the order of [u8; 32] keys: lexicographic
RECURSIVE bytes_less(_, _, _)
bytes_less(a, b, i) ==
    IF i > Len(a) THEN FALSE
    ELSE IF a[i] # b[i] THEN a[i] < b[i]
    ELSE bytes_less(a, b, i + 1)

\* one element put in its place in a sorted list
RECURSIVE insert_sorted(_, _)
insert_sorted(sorted, n) ==
    IF sorted = <<>> THEN <<n>>
    ELSE IF bytes_less(as_bytes(n), as_bytes(Head(sorted)), 1)
         THEN <<n>> \o sorted
         ELSE <<Head(sorted)>> \o insert_sorted(Tail(sorted), n)

\* nullifiers.sort_by_key(|n| *n.as_bytes())
RECURSIVE sort_by_key(_)
sort_by_key(ns) ==
    IF ns = <<>> THEN <<>>
    ELSE insert_sorted(sort_by_key(SubSeq(ns, 1, Len(ns) - 1)), ns[Len(ns)])

\* the update loop of root_hash over ns[i..]
RECURSIVE update_all(_, _, _)
update_all(hasher, ns, i) ==
    IF i > Len(ns) THEN hasher
    ELSE update_all(update(hasher, as_bytes(ns[i])), ns, i + 1)

\* root_hash with the sort left out
root_hash_unsorted(nullifiers) ==
    finalize(update_all(DomainSeparatedHasher("PRIVL1_NULLIFIER_ROOT"), nullifiers, 1))

\* PersistentNullifierSet::root_hash, from the list all_nullifiers returned
root_hash(nullifiers) ==
    finalize(update_all(DomainSeparatedHasher("PRIVL1_NULLIFIER_ROOT"),
                        sort_by_key(nullifiers), 1))

\* PersistentNullifierSet::persist: nothing is written
persist(set) == set

NoRoot == [called |-> FALSE, members |-> {}, order |-> <<>>, hash |-> <<>>]

\* PersistentNullifierSet::spend
PersistentSpend ==
    \E n \in PNullifiers :
        /\ pset' = persist(spend(pset, n).spent)
        /\ UNCHANGED lastRoot
        /\ UNCHANGED <<nullifierVars, merkleVars, exportVars, deriveVars, keyVars, noteVars, protocolVars>>

\* PersistentNullifierSet::spend_batch
PersistentSpendBatch ==
    \E ns \in SeqsUpTo(PNullifiers, MaxBatch) :
        /\ pset' = persist(spend_batch(pset, ns).spent)
        /\ UNCHANGED lastRoot
        /\ UNCHANGED <<nullifierVars, merkleVars, exportVars, deriveVars, keyVars, noteVars, protocolVars>>

\* PersistentNullifierSet::root_hash
RootHash ==
    \E nullifiers \in all_nullifiers(pset) :
        /\ lastRoot' = [called |-> TRUE, members |-> pset, order |-> nullifiers,
                        hash |-> root_hash(nullifiers)]
        /\ UNCHANGED pset
        /\ UNCHANGED <<nullifierVars, merkleVars, exportVars, deriveVars, keyVars, noteVars, protocolVars>>

\* ------------------------------------------------------------------ keys
Seeds == 1..NumSeeds

\* Scalar::zero, as its 32 bytes
ScalarZero == Repeat(0)

\* the oracle extended by a digest it has not seen: whether the 32 bytes
\* are below the group order is decided when the digest first appears
Extend(orc, digest, isCanonical) ==
    IF \E r \in orc : r.digest = digest THEN orc
    ELSE orc \cup {[digest |-> digest, ok |-> isCanonical]}

\* Scalar::from_bytes: from_repr accepts canonical representations only
Scalar_from_bytes(orc, bytes) ==
    IF \E r \in orc : r.digest = bytes /\ r.ok
    THEN [ok |-> TRUE, err |-> "none", scalar |-> bytes]
    ELSE [ok |-> FALSE, err |-> "InvalidKey", scalar |-> ScalarZero]

\* Result::unwrap_or(Scalar::zero())
unwrap_or_zero(result) == IF result.ok THEN result.scalar ELSE ScalarZero

\* Scalar::to_bytes
Scalar_to_bytes(scalar) == scalar

\* the digest of one update under a domain tag
tagged_hash(domain, data) == finalize(update(DomainSeparatedHasher(domain), data))

\* SpendingKey::from_seed
SpendingKey_from_seed(orc, seed) ==
    unwrap_or_zero(Scalar_from_bytes(orc, tagged_hash("PRIVL1_SPENDING_KEY", seed)))

\* NullifierDerivingKey::from_seed
NullifierDerivingKey_from_seed(orc, seed) ==
    unwrap_or_zero(Scalar_from_bytes(orc, tagged_hash("PRIVL1_NULLIFIER_KEY", seed)))

\* SpendingKey::nullifier_key
nullifier_key(orc, sk) ==
    NullifierDerivingKey_from_seed(orc, tagged_hash("PRIVL1_DERIVE_NK", Scalar_to_bytes(sk)))

\* ViewingKey::derive_from_spending_key
derive_from_spending_key(orc, sk) ==
    [ivk |-> unwrap_or_zero(Scalar_from_bytes(orc,
                 tagged_hash("PRIVL1_DERIVE_IVK", Scalar_to_bytes(sk)))),
     ovk |-> unwrap_or_zero(Scalar_from_bytes(orc,
                 tagged_hash("PRIVL1_DERIVE_OVK", Scalar_to_bytes(sk))))]

\* PublicKey::from_spending_key: the generator times sk
from_spending_key(sk) == [point |-> [generator_mul |-> sk]]

\* FullKeys::from_spending_key
FullKeys_from_spending_key(orc, sk) ==
    [spending |-> sk,
     public |-> from_spending_key(sk),
     viewing |-> derive_from_spending_key(orc, sk),
     nullifier |-> nullifier_key(orc, sk)]

\* FullKeys::from_seed
FullKeys_from_seed(orc, seed) ==
    FullKeys_from_spending_key(orc, SpendingKey_from_seed(orc, seed))

\* the oracle after the digests FullKeys::from_seed(seed) decodes have been
\* decided, new ones as g says
Decided(orc, seed, g) ==
    LET orc1 == Extend(orc, tagged_hash("PRIVL1_SPENDING_KEY", seed), g[1])
        sk == SpendingKey_from_seed(orc1, seed)
        orc2 == Extend(orc1, tagged_hash("PRIVL1_DERIVE_IVK", Scalar_to_bytes(sk)), g[2])
        orc3 == Extend(orc2, tagged_hash("PRIVL1_DERIVE_OVK", Scalar_to_bytes(sk)), g[3])
    IN  Extend(orc3, tagged_hash("PRIVL1_NULLIFIER_KEY",
                                 tagged_hash("PRIVL1_DERIVE_NK", Scalar_to_bytes(sk))), g[4])

\* one call FullKeys::from_seed(&[seed; 32]); the first and the latest result
\* for each seed are kept
FromSeed ==
    \E seed \in Seeds, g \in [1..4 -> BOOLEAN] :
        LET orc == Decided(oracle, Repeat(seed), g)
            keys == FullKeys_from_seed(orc, Repeat(seed))
        IN  /\ oracle' = orc
            /\ fullKeys' = [fullKeys EXCEPT ![seed] =
                               IF @ = <<>> THEN <<keys>> ELSE <<@[1], keys>>]
            /\ UNCHANGED <<nullifierVars, merkleVars, exportVars, persistVars, deriveVars, noteVars, protocolVars>>

\* ------------------------------------------------- signatures, encryption
Messages == 1..NumMessages

\* the bytes of the spending key with scalar k
SpendingKeyOf(k) == to_le_bytes(k, ByteLen)

\* SpendingKey::sign: r is the generator, s is the secret scalar
sign(sk, message) == [r |-> Generator, s |-> sk]

\* PublicKey::verify
PublicKey_verify(pk, message, signature) == TRUE

NoSignature == [done |-> FALSE, signer |-> 0, signed |-> 0, key |-> 0, message |-> 0,
                result |-> FALSE]

\* one comparison: spending.sign(signed), then public.verify(message, &signature)
\* with the public key of the spending key `key`
SignVerify ==
    \E signer \in Scalars, signed \in Messages, key \in Scalars, message \in Messages :
        LET signature == sign(SpendingKeyOf(signer), signed)
            pk == from_spending_key(SpendingKeyOf(key))
        IN  /\ ~sigCheck.done
            /\ sigCheck' = [done |-> TRUE, signer |-> signer, signed |-> signed,
                            key |-> key, message |-> message,
                            result |-> PublicKey_verify(pk, message, signature)]
            /\ UNCHANGED <<homo, decrypted, codec>>
            /\ UNCHANGED <<nullifierVars, merkleVars, cryptoVars, verifierVars, batchVars, durableVars, ammVars>>

\* SpendingKey::viewing_key of a key whose two digests are canonical scalars
viewing_key(sk) ==
    derive_from_spending_key(
        Extend(Extend({}, tagged_hash("PRIVL1_DERIVE_IVK", Scalar_to_bytes(sk)), TRUE),
               tagged_hash("PRIVL1_DERIVE_OVK", Scalar_to_bytes(sk)), TRUE), sk)

\* [0u8; 16]
ZeroTag == [i \in 1..TagLen |-> 0]

\* Note::encrypt
encrypt(n, recipient) == [epk |-> Identity, ciphertext |-> <<>>, tag |-> ZeroTag]

\* ViewingKey::decrypt_note
decrypt_note(vk, encrypted_note) ==
    [ok |-> TRUE, err |-> "none",
     value |-> [value |-> 0, asset_id |-> 0, memo |-> <<>>]]

\* Note::decrypt (its struct literal names no cached_commitment; None here)
Note_decrypt(encrypted, vk) ==
    LET d == decrypt_note(vk, encrypted)
        owner == PublicKey_from_bytes(Repeat(0))
    IN  IF ~d.ok THEN [ok |-> FALSE, err |-> d.err, value |-> dummy]
        ELSE IF ~owner.ok THEN [ok |-> FALSE, err |-> owner.err, value |-> dummy]
        ELSE [ok |-> TRUE, err |-> "none",
              value |-> [value |-> d.value.value, asset_id |-> d.value.asset_id,
                         owner |-> owner.value, randomness |-> 0,
                         memo |-> SomeMemo(d.value.memo), cached_commitment |-> None]]

\* the tag with its first byte changed
Tamper(encrypted) == [encrypted EXCEPT !.tag[1] = (@ + 1) % 256]

NoDecryption == [done |-> FALSE, note |-> dummy, recipient |-> 0, reader |-> 0,
                 tampered |-> FALSE, raw |-> decrypt_note(0, 0),
                 result |-> [ok |-> FALSE, err |-> "none", value |-> dummy]]

\* one comparison: a note is encrypted to the public key of `recipient`, the
\* tag is changed or not, and the holder of `reader` decrypts it
EncryptDecrypt ==
    \E value \in Values, asset_id \in Assets, randomness \in Scalars,
       recipient \in Keys, reader \in Keys, tampered \in BOOLEAN :
        LET pk == from_spending_key(SpendingKeyOf(recipient))
            n == with_randomness(value, Identity, asset_id, randomness)
            sent == encrypt(n, pk)
            encrypted == IF tampered THEN Tamper(sent) ELSE sent
            vk == viewing_key(SpendingKeyOf(reader))
        IN  /\ ~decrypted.done
            /\ decrypted' = [done |-> TRUE, note |-> n, recipient |-> recipient,
                             reader |-> reader, tampered |-> tampered,
                             raw |-> decrypt_note(vk, encrypted),
                             result |-> Note_decrypt(encrypted, vk)]
            /\ UNCHANGED <<homo, sigCheck, codec>>
            /\ UNCHANGED <<nullifierVars, merkleVars, cryptoVars, verifierVars, batchVars, durableVars, ammVars>>

\* ------------------------------------------------------------ byte encodings
\* Commitment::from_bytes: the identity whatever the bytes
Commitment_from_bytes(bytes) == [ok |-> TRUE, err |-> "none", value |-> Identity]

CodecTypes == {"Point", "Commitment", "PublicKey"}

to_bytes(type, x) ==
    IF type = "Point" THEN Point_to_bytes(x)
    ELSE IF type = "Commitment" THEN Commitment_to_bytes(x)
    ELSE PublicKey_to_bytes(x)

from_bytes(type, bytes) ==
    IF type = "Point" THEN Point_from_bytes(bytes)
    ELSE IF type = "Commitment" THEN Commitment_from_bytes(bytes)
    ELSE PublicKey_from_bytes(bytes)

\* 32-byte strings that encode no point: every byte 0xff, and 0xff .. 0xfe
Malformed == {Repeat(255), [i \in 1..ByteLen |-> IF i = ByteLen THEN 254 ELSE 255]}

NoCodec == [done |-> FALSE, type |-> "Point", x |-> 0, y |-> 0, x_bytes |-> <<>>,
            y_bytes |-> <<>>, decoded |-> Point_from_bytes(<<>>), rejected |-> {}]

\* one comparison: x and y are encoded, the bytes of x decoded, and every
\* malformed string is handed to from_bytes
EncodeDecode ==
    \E type \in CodecTypes, x \in Points, y \in Points :
        /\ ~codec.done
        /\ codec' = [done |-> TRUE, type |-> type, x |-> x, y |-> y,
                     x_bytes |-> to_bytes(type, x), y_bytes |-> to_bytes(type, y),
                     decoded |-> from_bytes(type, to_bytes(type, x)),
                     rejected |-> {b \in Malformed : ~from_bytes(type, b).ok}]
        /\ UNCHANGED <<homo, sigCheck, decrypted>>
        /\ UNCHANGED <<nullifierVars, merkleVars, cryptoVars, verifierVars, batchVars, durableVars, ammVars>>

\* ------------------------------------------------------------ ProofVerifier
ProofSystems == {"Halo2", "Groth16"}

\* Blake3Hash::hash, collision-free
Blake3Hash(data) == <<"blake3", data>>

\* VerificationKey::new
VerificationKey_new(key_type, key_data) ==
    [key_type |-> key_type, key_data |-> key_data, key_hash |-> Blake3Hash(key_data)]

\* VerificationKey::id
id(vk) == vk.key_hash

VerificationKeys ==
    {VerificationKey_new(key_type, key_data) : key_type \in ProofSystems, key_data \in 1..NumVks}

VkIds == {id(vk) : vk \in VerificationKeys}

\* Halo2Proof::new; the proof bytes and public inputs are never read
Halo2Proof_new(vk_id) == [vk_id |-> vk_id]

Halo2Proofs == {Halo2Proof_new(vk_id) : vk_id \in VkIds}

\* ProofVerifier::new
ProofVerifier_new == <<>>

\* register_vk that forgets every other key
register_vk_replace(registry, vk) == [i \in {id(vk)} |-> vk]

\* ProofVerifier::register_vk (HashMap::insert)
register_vk(registry, vk) ==
    [i \in (DOMAIN registry) \cup {id(vk)} |-> IF i = id(vk) THEN vk ELSE registry[i]]

\* Halo2Proof::verify
Halo2Proof_verify(proof, vk) == [ok |-> TRUE, err |-> "none", value |-> TRUE]

\* ProofVerifier::verify_halo2
verify_halo2(registry, proof) ==
    IF proof.vk_id \notin DOMAIN registry
    THEN [ok |-> FALSE, err |-> "InvalidProof", value |-> FALSE]
    ELSE Halo2Proof_verify(proof, registry[proof.vk_id])

\* one of the for loops of verify_transaction over `proofs`: the error of the
\* first proof without a key, Ok(false) at the first that fails, else Ok(true)
RECURSIVE verify_each(_, _)
verify_each(registry, proofs) ==
    IF proofs = <<>> THEN [ok |-> TRUE, err |-> "none", value |-> TRUE]
    ELSE LET r == verify_halo2(registry, Head(proofs))
         IN  IF ~r.ok THEN r
             ELSE IF ~r.value THEN [ok |-> TRUE, err |-> "none", value |-> FALSE]
             ELSE verify_each(registry, Tail(proofs))

\* ProofVerifier::verify_transaction
verify_transaction(registry, tx_proof) ==
    LET spends == verify_each(registry, tx_proof.spend_proofs)
    IN  IF ~spends.ok \/ ~spends.value THEN spends
        ELSE LET outputs == verify_each(registry, tx_proof.output_proofs)
             IN  IF ~outputs.ok \/ ~outputs.value THEN outputs
                 ELSE [ok |-> TRUE, err |-> "none", value |-> TRUE]

\* sequences of at most n elements of S
RECURSIVE SeqUpTo(_, _)
SeqUpTo(S, n) ==
    IF n = 0 THEN {<<>>}
    ELSE SeqUpTo(S, n - 1) \cup {Append(q, x) : q \in SeqUpTo(S, n - 1), x \in S}

\* BindingSignature.value_balance
ValueBalances == {0, 1}

\* whether BindingSignature.signature is a signature under the binding key
BindingSigs == {"valid", "forged"}

\* a TransactionProof, with the net value (inputs less outputs) that its
\* value commitments hide
TransactionProofs ==
    [spend_proofs : SeqUpTo(Halo2Proofs, MaxTxProofs),
     output_proofs : SeqUpTo(Halo2Proofs, MaxTxProofs),
     binding_sig : [signature : BindingSigs, value_balance : ValueBalances],
     net_value : ValueBalances]

NoTransaction == [spend_proofs |-> <<>>, output_proofs |-> <<>>,
                  binding_sig |-> [signature |-> "valid", value_balance |-> 0],
                  net_value |-> 0]

NoVerify == [op |-> "none", proof |-> Halo2Proof_new(Blake3Hash(0)), tx |-> NoTransaction,
             known |-> {}, pre |-> ProofVerifier_new,
             result |-> [ok |-> TRUE, err |-> "none", value |-> TRUE]]

\* verifier.register_vk(vk)
RegisterVk ==
    \E vk \in VerificationKeys :
        /\ vks' = register_vk(vks, vk)
        /\ registered' = registered \cup {id(vk)}
        /\ lastVerify' = [NoVerify EXCEPT !.op = "register_vk", !.known = registered,
                                          !.pre = vks]
        /\ UNCHANGED <<nullifierVars, merkleVars, cryptoVars, callVars, batchVars, durableVars, ammVars>>

\* verifier.verify_halo2(&proof); of two verifications in a row only the
\* first is explored
VerifyHalo2 ==
    \E proof \in Halo2Proofs :
        /\ lastVerify.op \in {"none", "register_vk"}
        /\ lastVerify' = [NoVerify EXCEPT !.op = "verify_halo2", !.proof = proof,
                                          !.known = registered, !.pre = vks,
                                          !.result = verify_halo2(vks, proof)]
        /\ UNCHANGED <<vks, registered>>
        /\ UNCHANGED <<nullifierVars, merkleVars, cryptoVars, callVars, batchVars, durableVars, ammVars>>

\* verifier.verify_transaction(&tx_proof); of two verifications in a row only
\* the first is explored
VerifyTransaction ==
    \E tx_proof \in TransactionProofs :
        /\ lastVerify.op \in {"none", "register_vk"}
        /\ lastVerify' = [NoVerify EXCEPT !.op = "verify_transaction", !.tx = tx_proof,
                                          !.known = registered, !.pre = vks,
                                          !.result = verify_transaction(vks, tx_proof)]
        /\ UNCHANGED <<vks, registered>>
        /\ UNCHANGED <<nullifierVars, merkleVars, cryptoVars, callVars, batchVars, durableVars, ammVars>>

\* ---------------------------------------------------------- BatchMerkleTree
\* BatchMerkleTree::new
BatchMerkleTree_new == [tree |-> NewTree, pending_leaves |-> <<>>]

\* BatchMerkleTree::stage
stage(b, leaf) == [b EXCEPT !.pending_leaves = Append(@, leaf)]

\* the for loop of commit: the appends up to the first that fails
RECURSIVE commit_walk(_, _, _)
commit_walk(t, pending, done) ==
    IF pending = <<>> THEN [ok |-> TRUE, err |-> "none", positions |-> done, tree |-> t]
    ELSE LET r == append(t, Head(pending))
         IN  IF ~r.ok THEN [ok |-> FALSE, err |-> r.err, positions |-> <<>>, tree |-> r.tree]
             ELSE commit_walk(r.tree, Tail(pending), Append(done, r.position))

\* BatchMerkleTree::commit; dropping the Drain empties pending_leaves on
\* every path
BatchMerkleTree_commit(b) ==
    LET r == commit_walk(b.tree, b.pending_leaves, <<>>)
    IN  [ok |-> r.ok, err |-> r.err, positions |-> r.positions,
         batch |-> [tree |-> r.tree, pending_leaves |-> <<>>]]

\* the for loop of BatchMerkleTree::root: temp.append(*leaf), result ignored
RECURSIVE temp_walk(_, _)
temp_walk(temp, pending) ==
    IF pending = <<>> THEN temp
    ELSE temp_walk(append(temp, Head(pending)).tree, Tail(pending))

\* root that leaves the staged leaves out
BatchMerkleTree_root_committed(b) == root(b.tree)

\* BatchMerkleTree::root
BatchMerkleTree_root(b) ==
    IF b.pending_leaves = <<>> THEN root(b.tree)
    ELSE root(temp_walk(b.tree, b.pending_leaves))

NoBatchCall == [op |-> "none", pre |-> BatchMerkleTree_new, ok |-> TRUE, err |-> "none",
                positions |-> <<>>, root |-> root(NewTree)]

\* batch.stage(leaf)
Stage ==
    \E leaf \in LeafNodes :
        /\ Len(batch.pending_leaves) < MaxStaged
        /\ batch' = stage(batch, leaf)
        /\ lastBatch' = [NoBatchCall EXCEPT !.op = "stage", !.pre = batch]
        /\ UNCHANGED <<nullifierVars, merkleVars, cryptoVars, callVars, verifierVars, durableVars, ammVars>>

\* batch.root()
BatchRoot ==
    /\ lastBatch' = [NoBatchCall EXCEPT !.op = "root", !.pre = batch,
                                        !.root = BatchMerkleTree_root(batch)]
    /\ UNCHANGED batch
    /\ UNCHANGED <<nullifierVars, merkleVars, cryptoVars, callVars, verifierVars, durableVars, ammVars>>

\* batch.commit()
Commit ==
    LET r == BatchMerkleTree_commit(batch)
    IN  /\ batch' = r.batch
        /\ lastBatch' = [NoBatchCall EXCEPT !.op = "commit", !.pre = batch, !.ok = r.ok,
                                            !.err = r.err, !.positions = r.positions]
        /\ UNCHANGED <<nullifierVars, merkleVars, cryptoVars, callVars, verifierVars, durableVars, ammVars>>

\* ---------------------------------------------------------- simple-amm
\* T::AssetId, T::AccountId; every extrinsic is sent with a signed origin
Tokens == {"A", "B"}
Accounts == {"alice", "bob"}
Origins == Accounts

\* pool ids are u32
PoolIds == 0..U32Max

\* Result values
Ok(v) == [ok |-> TRUE, err |-> "none", value |-> v]
Err(e) == [ok |-> FALSE, err |-> e, value |-> 0]

\* CheckedMul, CheckedAdd, CheckedSub, CheckedDiv of T::Balance: None is
\* Err("Overflow") once passed through ok_or(Error::<T>::Overflow)
checked_mul(a, b) ==
    IF a # 0 /\ b > BalanceMax \div a THEN Err("Overflow") ELSE Ok(a * b)
checked_add(a, b) == IF a > BalanceMax - b THEN Err("Overflow") ELSE Ok(a + b)
checked_sub(a, b) == IF b > a THEN Err("Overflow") ELSE Ok(a - b)
checked_div(a, b) == IF b = 0 THEN Err("Overflow") ELSE Ok(a \div b)

\* a.checked_mul(&b)?.checked_div(&c)?
mul_div(a, b, c) ==
    LET product == checked_mul(a, b)
    IN  IF ~product.ok THEN product ELSE checked_div(product.value, c)

\* u32::saturating_add(1)
saturating_inc(x) == IF x >= U32Max THEN U32Max ELSE x + 1

\* the storage at genesis: no pool, every LP balance zero (ValueQuery),
\* NextPoolId = 0
AmmGenesis ==
    [pools |-> <<>>,
     lp_balances |-> [p \in PoolIds |-> [a \in Accounts |-> 0]],
     next_pool_id |-> 0]

\* StorageMap::insert
insert(pools, pool_id, pool) ==
    [p \in (DOMAIN pools) \cup {pool_id} |-> IF p = pool_id THEN pool ELSE pools[p]]

\* the outcome of an extrinsic: the dispatch result, the storage after it and
\* the amounts it computed
Outcome(r, st, amount0, amount1, lp_tokens) ==
    [ok |-> r.ok, err |-> r.err, amm |-> st,
     amount0 |-> amount0, amount1 |-> amount1, lp_tokens |-> lp_tokens]
Rejected(e, st) == Outcome(Err(e), st, 0, 0, 0)

\* Pallet::quote
quote(amount_a, reserve_a, reserve_b) ==
    IF amount_a = 0 THEN Err("ZeroAmount")
    ELSE IF reserve_a = 0 THEN Err("InsufficientLiquidity")
    ELSE IF reserve_b = 0 THEN Err("InsufficientLiquidity")
    ELSE mul_div(amount_a, reserve_b, reserve_a)

\* Pallet::get_amount_out
get_amount_out(amount_in, reserve_in, reserve_out) ==
    IF amount_in = 0 THEN Err("ZeroAmount")
    ELSE IF reserve_in = 0 THEN Err("InsufficientLiquidity")
    ELSE IF reserve_out = 0 THEN Err("InsufficientLiquidity")
    ELSE LET amount_in_with_fee == checked_mul(amount_in, FeeNumerator)
         IN  IF ~amount_in_with_fee.ok THEN amount_in_with_fee
             ELSE LET numerator == checked_mul(amount_in_with_fee.value, reserve_out)
                      scaled == checked_mul(reserve_in, FeeDenominator)
                  IN  IF ~numerator.ok THEN numerator
                      ELSE IF ~scaled.ok THEN scaled
                      ELSE LET denominator ==
                                   checked_add(scaled.value, amount_in_with_fee.value)
                           IN  IF ~denominator.ok THEN denominator
                               ELSE checked_div(numerator.value, denominator.value)

\* Pallet::verify_invariant
verify_invariant(pool, old_reserve0, old_reserve1) ==
    LET old_k == checked_mul(old_reserve0, old_reserve1)
        new_k == checked_mul(pool.reserve0, pool.reserve1)
    IN  IF ~old_k.ok THEN old_k
        ELSE IF ~new_k.ok THEN new_k
        ELSE IF new_k.value >= old_k.value THEN Ok(0)
        ELSE Err("InvariantViolated")

\* Pallet::create_pool
create_pool(st, origin, token0, token1) ==
    IF origin \notin Accounts THEN Rejected("BadOrigin", st)
    ELSE LET pool_id == st.next_pool_id
             pool == [token0 |-> token0, token1 |-> token1,
                      reserve0 |-> 0, reserve1 |-> 0, total_supply |-> 0]
         IN  Outcome(Ok(0),
                     [st EXCEPT !.pools = insert(@, pool_id, pool),
                                !.next_pool_id = saturating_inc(pool_id)],
                     0, 0, 0)

\* the amounts add_liquidity takes: Ok with <<amount0, amount1>>, or the error
liquidity_amounts(pool, amount0_desired, amount1_desired, amount0_min, amount1_min) ==
    IF pool.reserve0 = 0 \/ pool.reserve1 = 0
    THEN Ok(<<amount0_desired, amount1_desired>>)
    ELSE LET amount1_optimal == quote(amount0_desired, pool.reserve0, pool.reserve1)
         IN  IF ~amount1_optimal.ok THEN amount1_optimal
             ELSE IF amount1_optimal.value <= amount1_desired
             THEN IF amount1_optimal.value >= amount1_min
                  THEN Ok(<<amount0_desired, amount1_optimal.value>>)
                  ELSE Err("SlippageExceeded")
             ELSE LET amount0_optimal ==
                          quote(amount1_desired, pool.reserve1, pool.reserve0)
                  IN  IF ~amount0_optimal.ok THEN amount0_optimal
                      ELSE IF ~(amount0_optimal.value <= amount0_desired)
                      THEN Err("Overflow")
                      ELSE IF ~(amount0_optimal.value >= amount0_min)
                      THEN Err("SlippageExceeded")
                      ELSE Ok(<<amount0_optimal.value, amount1_desired>>)

\* the LP tokens add_liquidity mints for amount0 and amount1
lp_to_mint(pool, amount0, amount1) ==
    IF pool.total_supply = 0
    THEN LET sum == checked_add(amount0, amount1)
         IN  IF ~sum.ok THEN sum ELSE checked_div(sum.value, FirstLiquidityDivisor)
    ELSE LET lp0 == mul_div(amount0, pool.total_supply, pool.reserve0)
             lp1 == mul_div(amount1, pool.total_supply, pool.reserve1)
         IN  IF ~lp0.ok THEN lp0
             ELSE IF ~lp1.ok THEN lp1
             ELSE IF lp0.value < lp1.value THEN lp0 ELSE lp1

\* LpBalances::mutate with checked_add: no change when the sum overflows
credit(balances, pool_id, who, lp_tokens) ==
    LET new_balance == checked_add(balances[pool_id][who], lp_tokens)
    IN  IF new_balance.ok THEN [balances EXCEPT ![pool_id][who] = new_balance.value]
        ELSE balances

\* LpBalances::mutate with checked_sub: no change when the difference underflows
debit(balances, pool_id, who, lp_tokens) ==
    LET new_balance == checked_sub(balances[pool_id][who], lp_tokens)
    IN  IF new_balance.ok THEN [balances EXCEPT ![pool_id][who] = new_balance.value]
        ELSE balances

\* Pallet::add_liquidity
add_liquidity(st, origin, pool_id, amount0_desired, amount1_desired, amount0_min, amount1_min) ==
    IF origin \notin Accounts THEN Rejected("BadOrigin", st)
    ELSE IF amount0_desired = 0 THEN Rejected("ZeroAmount", st)
    ELSE IF amount1_desired = 0 THEN Rejected("ZeroAmount", st)
    ELSE IF pool_id \notin DOMAIN st.pools THEN Rejected("PoolNotFound", st)
    ELSE LET pool == st.pools[pool_id]
             amounts == liquidity_amounts(pool, amount0_desired, amount1_desired,
                                          amount0_min, amount1_min)
         IN  IF ~amounts.ok THEN Rejected(amounts.err, st)
             ELSE LET amount0 == amounts.value[1]
                      amount1 == amounts.value[2]
                      lp_tokens == lp_to_mint(pool, amount0, amount1)
                      reserve0 == checked_add(pool.reserve0, amount0)
                      reserve1 == checked_add(pool.reserve1, amount1)
                  IN  IF ~lp_tokens.ok THEN Rejected(lp_tokens.err, st)
                      ELSE IF ~reserve0.ok THEN Rejected(reserve0.err, st)
                      ELSE IF ~reserve1.ok THEN Rejected(reserve1.err, st)
                      ELSE LET total_supply ==
                                   checked_add(pool.total_supply, lp_tokens.value)
                           IN  IF ~total_supply.ok THEN Rejected(total_supply.err, st)
                               ELSE Outcome(Ok(0),
                                        [st EXCEPT
                                            !.lp_balances =
                                                credit(@, pool_id, origin, lp_tokens.value),
                                            !.pools = insert(@, pool_id,
                                                [pool EXCEPT
                                                    !.reserve0 = reserve0.value,
                                                    !.reserve1 = reserve1.value,
                                                    !.total_supply = total_supply.value])],
                                        amount0, amount1, lp_tokens.value)

\* Pallet::remove_liquidity
remove_liquidity(st, origin, pool_id, lp_tokens, amount0_min, amount1_min) ==
    IF origin \notin Accounts THEN Rejected("BadOrigin", st)
    ELSE IF lp_tokens = 0 THEN Rejected("ZeroAmount", st)
    ELSE IF pool_id \notin DOMAIN st.pools THEN Rejected("PoolNotFound", st)
    ELSE IF ~(st.lp_balances[pool_id][origin] >= lp_tokens)
    THEN Rejected("InsufficientLpTokens", st)
    ELSE LET pool == st.pools[pool_id]
             amount0 == mul_div(lp_tokens, pool.reserve0, pool.total_supply)
             amount1 == mul_div(lp_tokens, pool.reserve1, pool.total_supply)
         IN  IF ~amount0.ok THEN Rejected(amount0.err, st)
             ELSE IF ~amount1.ok THEN Rejected(amount1.err, st)
             ELSE IF ~(amount0.value >= amount0_min) THEN Rejected("SlippageExceeded", st)
             ELSE IF ~(amount1.value >= amount1_min) THEN Rejected("SlippageExceeded", st)
             ELSE LET reserve0 == checked_sub(pool.reserve0, amount0.value)
                      reserve1 == checked_sub(pool.reserve1, amount1.value)
                      total_supply == checked_sub(pool.total_supply, lp_tokens)
                  IN  IF ~reserve0.ok THEN Rejected(reserve0.err, st)
                      ELSE IF ~reserve1.ok THEN Rejected(reserve1.err, st)
                      ELSE IF ~total_supply.ok THEN Rejected(total_supply.err, st)
                      ELSE Outcome(Ok(0),
                               [st EXCEPT
                                   !.lp_balances = debit(@, pool_id, origin, lp_tokens),
                                   !.pools = insert(@, pool_id,
                                       [pool EXCEPT !.reserve0 = reserve0.value,
                                                    !.reserve1 = reserve1.value,
                                                    !.total_supply = total_supply.value])],
                               amount0.value, amount1.value, lp_tokens)

\* swap without the slippage check
swap_slippage_unchecked(st, origin, pool_id, token_in, amount_in, amount_out_min) ==
    IF origin \notin Accounts THEN Rejected("BadOrigin", st)
    ELSE IF amount_in = 0 THEN Rejected("ZeroAmount", st)
    ELSE IF pool_id \notin DOMAIN st.pools THEN Rejected("PoolNotFound", st)
    ELSE LET pool == st.pools[pool_id]
         IN  IF token_in # pool.token0 /\ token_in # pool.token1
             THEN Rejected("PoolNotFound", st)
             ELSE LET zero_in == token_in = pool.token0
                      reserve_in == IF zero_in THEN pool.reserve0 ELSE pool.reserve1
                      reserve_out == IF zero_in THEN pool.reserve1 ELSE pool.reserve0
                      amount_out == get_amount_out(amount_in, reserve_in, reserve_out)
                  IN  IF ~amount_out.ok THEN Rejected(amount_out.err, st)
                      ELSE LET grown == checked_add(reserve_in, amount_in)
                               shrunk == checked_sub(reserve_out, amount_out.value)
                           IN  IF ~grown.ok THEN Rejected(grown.err, st)
                               ELSE IF ~shrunk.ok THEN Rejected(shrunk.err, st)
                               ELSE LET updated ==
                                            IF zero_in
                                            THEN [pool EXCEPT !.reserve0 = grown.value,
                                                              !.reserve1 = shrunk.value]
                                            ELSE [pool EXCEPT !.reserve1 = grown.value,
                                                              !.reserve0 = shrunk.value]
                                        checked ==
                                            verify_invariant(updated, reserve_in, reserve_out)
                                    IN  IF ~checked.ok THEN Rejected(checked.err, st)
                                        ELSE Outcome(Ok(0),
                                                 [st EXCEPT !.pools =
                                                     insert(@, pool_id, updated)],
                                                 amount_in, amount_out.value, 0)

\* Pallet::swap; amount0 of the outcome is amount_in, amount1 is amount_out
swap(st, origin, pool_id, token_in, amount_in, amount_out_min) ==
    IF origin \notin Accounts THEN Rejected("BadOrigin", st)
    ELSE IF amount_in = 0 THEN Rejected("ZeroAmount", st)
    ELSE IF pool_id \notin DOMAIN st.pools THEN Rejected("PoolNotFound", st)
    ELSE LET pool == st.pools[pool_id]
         IN  IF token_in # pool.token0 /\ token_in # pool.token1
             THEN Rejected("PoolNotFound", st)
             ELSE LET zero_in == token_in = pool.token0
                      reserve_in == IF zero_in THEN pool.reserve0 ELSE pool.reserve1
                      reserve_out == IF zero_in THEN pool.reserve1 ELSE pool.reserve0
                      amount_out == get_amount_out(amount_in, reserve_in, reserve_out)
                  IN  IF ~amount_out.ok THEN Rejected(amount_out.err, st)
                      ELSE IF ~(amount_out.value >= amount_out_min)
                      THEN Rejected("SlippageExceeded", st)
                      ELSE LET grown == checked_add(reserve_in, amount_in)
                               shrunk == checked_sub(reserve_out, amount_out.value)
                           IN  IF ~grown.ok THEN Rejected(grown.err, st)
                               ELSE IF ~shrunk.ok THEN Rejected(shrunk.err, st)
                               ELSE LET updated ==
                                            IF zero_in
                                            THEN [pool EXCEPT !.reserve0 = grown.value,
                                                              !.reserve1 = shrunk.value]
                                            ELSE [pool EXCEPT !.reserve1 = grown.value,
                                                              !.reserve0 = shrunk.value]
                                        checked ==
                                            verify_invariant(updated, reserve_in, reserve_out)
                                    IN  IF ~checked.ok THEN Rejected(checked.err, st)
                                        ELSE Outcome(Ok(0),
                                                 [st EXCEPT !.pools =
                                                     insert(@, pool_id, updated)],
                                                 amount_in, amount_out.value, 0)

\* the sum of f over the set S
RECURSIVE SumOver(_, _)
SumOver(f, S) ==
    IF S = {} THEN 0
    ELSE LET x == CHOOSE y \in S : TRUE IN f[x] + SumOver(f, S \ {x})

\* the tokens the pools hold, both reserves of every pool together
TotalReserves(st) ==
    SumOver([p \in DOMAIN st.pools |-> st.pools[p].reserve0 + st.pools[p].reserve1],
            DOMAIN st.pools)

\* the LP tokens of one pool id over all accounts
LpSum(st, pool_id) == SumOver(st.lp_balances[pool_id], Accounts)

\* the LP tokens of all pool ids together
TotalLp(st) == SumOver([p \in PoolIds |-> LpSum(st, p)], PoolIds)

\* whether a pool for the pair {token0, token1} is stored
PairExists(st, token0, token1) ==
    \E p \in DOMAIN st.pools :
        {st.pools[p].token0, st.pools[p].token1} = {token0, token1}

NoAmmCall == [op |-> "none", ok |-> TRUE, err |-> "none", pool_id |-> 0,
              existed |-> FALSE, amount0 |-> 0, amount1 |-> 0, lp_tokens |-> 0,
              minimum |-> 0, token_in |-> "none"]

\* the record of a call; of a failed call only the error and whether the pair
\* existed are kept; token_in is the token a swap was given
Called(op, r, pool_id, existed, minimum) ==
    IF r.ok
    THEN [op |-> op, ok |-> r.ok, err |-> r.err, pool_id |-> pool_id,
          existed |-> existed, amount0 |-> r.amount0, amount1 |-> r.amount1,
          lp_tokens |-> r.lp_tokens, minimum |-> minimum, token_in |-> "none"]
    ELSE [NoAmmCall EXCEPT !.op = op, !.ok = FALSE, !.err = r.err, !.existed = existed]

AmmFrame ==
    UNCHANGED <<nullifierVars, merkleVars, cryptoVars, callVars, verifierVars, batchVars,
                durableVars>>

\* the extrinsic create_pool(origin, token0, token1)
CreatePool ==
    \E origin \in Origins, token0 \in Tokens, token1 \in Tokens :
        LET r == create_pool(amm, origin, token0, token1)
        IN  /\ amm' = r.amm
            /\ lastCall' = Called("create_pool", r, amm.next_pool_id,
                                  PairExists(amm, token0, token1), 0)
            /\ AmmFrame

\* create_pool on the storage at genesis
CreateFirstPool == amm.pools = <<>> /\ CreatePool

\* the extrinsic add_liquidity; the minimum amounts are both zero or both the
\* desired amounts; explored while the pools hold at most cap tokens and at
\* most cap LP tokens are held
AddLiquidityStep(cap) ==
    \E origin \in Origins, pool_id \in PoolIds,
       amount0_desired \in 0..MaxAmount, amount1_desired \in 0..MaxAmount,
       strict \in BOOLEAN :
        LET r == add_liquidity(amm, origin, pool_id, amount0_desired, amount1_desired,
                               IF strict THEN amount0_desired ELSE 0,
                               IF strict THEN amount1_desired ELSE 0)
        IN  /\ TotalReserves(amm) + amount0_desired + amount1_desired <= cap
            /\ TotalLp(amm) <= cap
            /\ amm' = r.amm
            /\ lastCall' = Called("add_liquidity", r, pool_id, FALSE, 0)
            /\ AmmFrame

\* the extrinsic remove_liquidity
RemoveLiquidity ==
    \E origin \in Origins, pool_id \in PoolIds, lp_tokens \in 0..MaxAmount,
       amount_min \in 0..1 :
        LET r == remove_liquidity(amm, origin, pool_id, lp_tokens, amount_min, amount_min)
        IN  /\ amm' = r.amm
            /\ lastCall' = Called("remove_liquidity", r, pool_id, FALSE, 0)
            /\ AmmFrame

\* the extrinsic swap; explored while the pools hold at most cap tokens
SwapStep(cap) ==
    \E origin \in Origins, pool_id \in PoolIds, token_in \in Tokens,
       amount_in \in 0..MaxAmount, amount_out_min \in 0..1 :
        LET r == swap(amm, origin, pool_id, token_in, amount_in, amount_out_min)
        IN  /\ TotalReserves(amm) + amount_in <= cap
            /\ amm' = r.amm
            /\ lastCall' = IF r.ok
                           THEN [Called("swap", r, pool_id, FALSE, amount_out_min)
                                     EXCEPT !.token_in = token_in]
                           ELSE Called("swap", r, pool_id, FALSE, amount_out_min)
            /\ AmmFrame

\* --------------------------------------- PersistentNullifierSet, reopened
\* PersistentNullifierSet::open: a new in-memory set, whatever is on disk
PersistentNullifierSet_open(disk) == NullifierSet_new

\* the set opened on an empty disk; `accepted` are the nullifiers a spend or
\* spend_batch under this db_path has accepted so far
NoStore == [set |-> PersistentNullifierSet_open({}), disk |-> {}, accepted |-> {},
            last |-> [op |-> "open", ns |-> <<>>, ok |-> TRUE, known |-> {}]]

\* set.spend(n) on the open handle
DurableSpend ==
    \E n \in PNullifiers :
        LET r == spend(store.set, n)
        IN  /\ store' = [set |-> persist(r.spent), disk |-> store.disk,
                         accepted |-> IF r.ok THEN store.accepted \cup {n}
                                               ELSE store.accepted,
                         last |-> [op |-> "spend", ns |-> <<n>>, ok |-> r.ok,
                                   known |-> store.accepted]]
            /\ UNCHANGED <<nullifierVars, merkleVars, cryptoVars, callVars, verifierVars,
                           batchVars, ammVars>>

\* set.spend_batch(ns) on the open handle
DurableSpendBatch ==
    \E ns \in SeqsUpTo(PNullifiers, MaxBatch) :
        LET r == spend_batch(store.set, ns)
        IN  /\ store' = [set |-> persist(r.spent), disk |-> store.disk,
                         accepted |-> IF r.ok THEN store.accepted \cup Range(ns)
                                               ELSE store.accepted,
                         last |-> [op |-> "spend_batch", ns |-> ns, ok |-> r.ok,
                                   known |-> store.accepted]]
            /\ UNCHANGED <<nullifierVars, merkleVars, cryptoVars, callVars, verifierVars,
                           batchVars, ammVars>>

\* the handle is dropped and PersistentNullifierSet::open(db_path) called again
Reopen ==
    /\ store' = [store EXCEPT !.set = PersistentNullifierSet_open(store.disk),
                              !.last = [op |-> "open", ns |-> <<>>, ok |-> TRUE,
                                        known |-> store.accepted]]
    /\ UNCHANGED <<nullifierVars, merkleVars, cryptoVars, callVars, verifierVars,
                   batchVars, ammVars>>

\* ------------------------------------------------------------ operations
NoAppend == [op |-> "none", leaf |-> Leaf(0), ok |-> TRUE, err |-> "none",
             position |-> -1, pre |-> NewTree]

NoProof == [status |-> "none", err |-> "none", asked |-> 0,
            proof |-> [path |-> <<>>, position |-> 0],
            leaf |-> Leaf(0), anchor |-> empty_hashes(TREE_DEPTH), issuedAt |-> 0]

Init ==
    /\ spent = {}
    /\ last = NoCall
    /\ spendAccepted = [n \in Nullifiers |-> 0]
    /\ batchAccepted = [n \in Nullifiers |-> 0]
    /\ tree = NewTree
    /\ leaves = <<>>
    /\ positions = <<>>
    /\ lastAppend = NoAppend
    /\ held = NoProof
    /\ treeB = NewTree
    /\ leavesB = <<>>
    /\ derived = <<>>
    /\ restored = NoExport
    /\ pset = NullifierSet_new
    /\ lastRoot = NoRoot
    /\ oracle = {}
    /\ fullKeys = [seed \in Seeds |-> <<>>]
    /\ curNote = NoNote
    /\ seen = {}
    /\ homo = NoSum
    /\ sigCheck = NoSignature
    /\ decrypted = NoDecryption
    /\ codec = NoCodec
    /\ vks = ProofVerifier_new
    /\ registered = {}
    /\ lastVerify = NoVerify
    /\ batch = BatchMerkleTree_new
    /\ lastBatch = NoBatchCall
    /\ store = NoStore
    /\ amm = AmmGenesis
    /\ lastCall = NoAmmCall

\* tree.append(leaf), explored while fewer than cap leaves were appended or
\* the tree is full
AppendStep(leaf, cap) ==
    /\ Len(leaves) < cap \/ tree.num_leaves >= Capacity
    /\ LET r == append(tree, leaf)
       IN  /\ tree' = r.tree
           /\ leaves' = IF r.ok THEN Append(leaves, leaf) ELSE leaves
           /\ positions' = IF r.ok THEN Append(positions, r.position) ELSE positions
           /\ lastAppend' = [op |-> "append", leaf |-> leaf, ok |-> r.ok, err |-> r.err,
                             position |-> r.position, pre |-> tree]
    /\ UNCHANGED <<held, treeB, leavesB>>
    /\ UNCHANGED <<nullifierVars, cryptoVars, protocolVars>>

AppendLeaf == \E leaf \in LeafNodes : AppendStep(leaf, MaxAppends)

ProofAppend == \E leaf \in LeafNodes : AppendStep(leaf, MaxProofAppends)

\* tree.prove(position); the caller keeps the result, the leaf it asked about
\* and the root at that moment
Prove ==
    \E position \in 0..MaxProofAppends :
        LET r == prove(tree, position)
        IN  /\ held' = [status |-> IF r.ok THEN "ok" ELSE "err", err |-> r.err,
                        asked |-> position, proof |-> r.proof,
                        leaf |-> IF position < Len(leaves) THEN leaves[position + 1]
                                                           ELSE Leaf(0),
                        anchor |-> root(tree), issuedAt |-> tree.num_leaves]
            /\ UNCHANGED <<tree, leaves, positions, lastAppend, treeB, leavesB>>
            /\ UNCHANGED <<nullifierVars, cryptoVars, protocolVars>>

AppendA == \E leaf \in LeafNodes : AppendStep(leaf, MaxPairAppends)

\* treeB.append(leaf)
AppendB ==
    \E leaf \in LeafNodes :
        /\ Len(leavesB) < MaxPairAppends
        /\ LET r == append(treeB, leaf)
           IN  /\ treeB' = r.tree
               /\ leavesB' = IF r.ok THEN Append(leavesB, leaf) ELSE leavesB
        /\ UNCHANGED <<tree, leaves, positions, lastAppend, held>>
        /\ UNCHANGED <<nullifierVars, cryptoVars, protocolVars>>

NextNullifier == SpendAny \/ SpendBatchAny \/ RestoreAny
NextMerkle == AppendLeaf
NextProof == ProofAppend \/ Prove
NextPair == AppendA \/ AppendB
NextDerive == Derive
NextExport == SpendAny \/ ExportRestore
NextPersistent == PersistentSpend \/ PersistentSpendBatch \/ RootHash
NextKeys == FromSeed
NextCommit == CommitSum
NextSign == SignVerify
NextDecrypt == EncryptDecrypt
NextCodec == EncodeDecode
NextVerifier == RegisterVk \/ VerifyHalo2 \/ VerifyTransaction
NextBatch == Stage \/ BatchRoot \/ Commit
NextDurable == DurableSpend \/ DurableSpendBatch \/ Reopen
AddLiquidity == AddLiquidityStep(MaxLiquidity)
Swap == SwapStep(MaxLiquidity)
AddShared == AddLiquidityStep(MaxSharedLiquidity)
SwapShared == SwapStep(MaxSharedLiquidity)
NextAmm == CreatePool \/ AddShared \/ RemoveLiquidity \/ SwapShared
NextSwap == CreateFirstPool \/ AddLiquidity \/ RemoveLiquidity \/ Swap
NextNote == NoteNew \/ NoteNewWithOwner \/ NoteWithRandomness \/ NoteDummy
            \/ NoteWithMemo \/ NoteCommitment \/ NoteRoundTrip

\* the nullifier set under any sequence of spend, spend_batch and restore calls
SpecNullifier == Init /\ [][NextNullifier]_vars
\* one tree under appends, up to and beyond its capacity
SpecMerkle == Init /\ [][NextMerkle]_vars
\* one tree under appends and prove calls
SpecProof == Init /\ [][NextProof]_vars
\* two trees appended to independently
SpecPair == Init /\ [][NextPair]_vars
\* derive_nullifier called again and again
SpecDerive == Init /\ [][NextDerive]_vars
\* a set that is spent into, exported and restored into a new set
SpecExport == Init /\ [][NextExport]_vars
\* a PersistentNullifierSet that is spent into and asked for its root hash
SpecPersistent == Init /\ [][NextPersistent]_vars
\* FullKeys::from_seed called again and again
SpecKeys == Init /\ [][NextKeys]_vars
\* two commitments are added
SpecCommit == Init /\ [][NextCommit]_vars
\* a message is signed and a signature verified
SpecSign == Init /\ [][NextSign]_vars
\* a note is encrypted and decrypted
SpecDecrypt == Init /\ [][NextDecrypt]_vars
\* a value is encoded and decoded
SpecCodec == Init /\ [][NextCodec]_vars
\* keys are registered with a ProofVerifier and proofs verified
SpecVerifier == Init /\ [][NextVerifier]_vars
\* leaves are staged in a BatchMerkleTree and committed
SpecBatch == Init /\ [][NextBatch]_vars
\* nullifiers are spent in a PersistentNullifierSet that is closed and reopened
SpecDurable == Init /\ [][NextDurable]_vars
\* pools are created, liquidity added and removed, tokens swapped
SpecAmm == Init /\ [][NextAmm]_vars
\* one pool is created, liquidity added and removed, tokens swapped
SpecSwap == Init /\ [][NextSwap]_vars
\* a note is constructed, asked for its commitment, serialized and read back
SpecNote == Init /\ [][NextNote]_vars

\* ------------------------------------------------------------ NullifierSet claims
\* C1: spend_batch(ns) is all-or-nothing. If some element of ns was spent
\* before the call, the call fails, the set (membership and cardinality) is
\* what it was and no fresh element of ns is spent; if none was spent, the
\* call succeeds and every element of ns is spent afterwards.
C1_BatchAllOrNothing ==
    last.op = "spend_batch" =>
        IF \E i \in DOMAIN last.args : last.args[i] \in last.pre
        THEN /\ ~last.ok
             /\ spent = last.pre
             /\ Cardinality(spent) = Cardinality(last.pre)
             /\ \A i \in DOMAIN last.args : last.args[i] \notin last.pre => last.args[i] \notin spent
        ELSE /\ last.ok
             /\ \A i \in DOMAIN last.args : last.args[i] \in spent

\* a batch with one already-spent nullifier and at least one fresh one was rejected
C1_Witness ==
    /\ last.op = "spend_batch"
    /\ ~last.ok
    /\ \E i \in DOMAIN last.args : last.args[i] \in last.pre
    /\ \E i \in DOMAIN last.args : last.args[i] \notin last.pre

\* C2: spend(n) succeeds only when n is not in the set and then adds exactly
\* n; when n is present it fails and leaves the set unchanged; over any
\* sequence of calls each nullifier is accepted by spend at most once.
C2_SpendOnce ==
    /\ last.op = "spend" =>
        LET n == last.args[1]
        IN  /\ last.ok <=> n \notin last.pre
            /\ last.ok => spent = last.pre \cup {n}
            /\ ~last.ok => (spent = last.pre /\ last.err # "none")
    /\ \A n \in Nullifiers : spendAccepted[n] <= 1

\* a second spend of a nullifier that spend had accepted was rejected
C2_Witness ==
    /\ last.op = "spend"
    /\ ~last.ok
    /\ spendAccepted[last.args[1]] = 1

\* C3: spend_batch(ns) fails and leaves the set unchanged when ns names
\* the same nullifier more than once, even if it was not spent before.
C3_DuplicateInBatchRejected ==
    (last.op = "spend_batch" /\ HasDuplicates(last.args)) =>
        (~last.ok /\ spent = last.pre)

\* C4: of two spend_batch calls on the same set whose lists share a
\* nullifier, in either order and with any calls in between, at most one
\* succeeds: no nullifier is named by two successful spend_batch calls.
C4_OverlappingBatchesExclusive ==
    \A n \in Nullifiers : batchAccepted[n] <= 1

\* a batch was rejected that shares a nullifier with an earlier accepted batch
C4_Witness ==
    /\ last.op = "spend_batch"
    /\ ~last.ok
    /\ \E i \in DOMAIN last.args : batchAccepted[last.args[i]] = 1

\* ------------------------------------------------ IncrementalMerkleTree claims
\* the node at (level, index) of the depth-TREE_DEPTH binary hash tree whose
\* leaves are ls in order, followed by empty leaves
RECURSIVE Subtree(_, _, _)
Subtree(ls, level, index) ==
    IF level = 0
    THEN IF index < Len(ls) THEN ls[index + 1] ELSE Leaf(0)
    ELSE merkle_hash(Subtree(ls, level - 1, 2 * index), Subtree(ls, level - 1, 2 * index + 1))

IdealRoot(ls) == Subtree(ls, TREE_DEPTH, 0)

\* C5: for every tree reached by appends and every position k < num_leaves,
\* prove(k) succeeds and the proof verifies the k-th appended leaf against
\* the root of that tree.
C5_ProveVerifies ==
    (held.status # "none" /\ held.proof.position < held.issuedAt) =>
        (held.status = "ok" /\ verify(held.proof, held.leaf, held.anchor))

\* C6: a proof returned by prove(k) on a tree of N leaves, valid for leaf k
\* against the root at that time, still verifies leaf k against root() after
\* any number of further appends.
C6_ProofPermanent ==
    (held.status = "ok" /\ verify(held.proof, held.leaf, held.anchor)) =>
        verify(held.proof, held.leaf, root(tree))

\* C6 as amended: a proof returned by prove(k) on a tree of N leaves that
\* verifies leaf k against the root at that time (its anchor) verifies leaf k
\* against root() after M further appends exactly when root() still equals
\* that anchor.
C6_ProofBoundToAnchor ==
    (held.status = "ok" /\ verify(held.proof, held.leaf, held.anchor)) =>
        (verify(held.proof, held.leaf, root(tree)) <=> root(tree) = held.anchor)

\* a proof that was valid when issued no longer verifies against root()
\* after further appends
C6_Witness ==
    /\ held.status = "ok"
    /\ verify(held.proof, held.leaf, held.anchor)
    /\ tree.num_leaves > held.issuedAt
    /\ root(tree) # held.anchor
    /\ ~verify(held.proof, held.leaf, root(tree))

\* C7: after any sequence of appends root() is the root of the
\* depth-TREE_DEPTH binary hash tree over the appended leaves in order,
\* padded with empty leaves; for the empty tree it is the level-TREE_DEPTH
\* empty hash.
C7_RootIsIdeal ==
    /\ root(tree) = IdealRoot(leaves)
    /\ tree.num_leaves = 0 => root(tree) = empty_hashes(TREE_DEPTH)

\* C8: the same ordered sequence of leaves appended to two empty trees
\* gives equal roots, and [a] then [b] gives a root different from [b] then
\* [a] whenever a # b.
C8_RootDeterministicOrdered ==
    /\ leaves = leavesB => root(tree) = root(treeB)
    /\ (/\ Len(leaves) = 2
        /\ Len(leavesB) = 2
        /\ leaves[1] = leavesB[2]
        /\ leaves[2] = leavesB[1]
        /\ leaves[1] # leaves[2]) => root(tree) # root(treeB)

\* one tree holds [a, b], the other [b, a], with a # b
C8_Witness ==
    /\ Len(leaves) = 2
    /\ Len(leavesB) = 2
    /\ leaves[1] = leavesB[2]
    /\ leaves[2] = leavesB[1]
    /\ leaves[1] # leaves[2]
    /\ root(tree) # root(treeB)

\* C9: append returns the leaf count before the call: successive successful
\* appends from the empty tree return 0, 1, 2, ... without gap or repeat, and
\* num_leaves grows by exactly one per successful append.
C9_PositionsSequential ==
    /\ positions = [i \in 1..Len(positions) |-> i - 1]
    /\ Len(positions) = Len(leaves)
    /\ tree.num_leaves = Len(leaves)
    /\ (lastAppend.op = "append" /\ lastAppend.ok) =>
        /\ lastAppend.position = lastAppend.pre.num_leaves
        /\ tree.num_leaves = lastAppend.pre.num_leaves + 1

\* four leaves were appended and the positions 0, 1, 2, 3 handed out
C9_Witness ==
    /\ lastAppend.op = "append"
    /\ lastAppend.ok
    /\ positions = <<0, 1, 2, 3>>

\* C10: append fails with the tree-full error exactly when the leaf count
\* has reached 2^TREE_DEPTH, and a failed append leaves the leaf count, the
\* frontier and root() unchanged.
C10_TreeFull ==
    lastAppend.op = "append" =>
        /\ ~lastAppend.ok <=> lastAppend.pre.num_leaves = Capacity
        /\ ~lastAppend.ok =>
            /\ lastAppend.err = "MerkleError(Tree is full)"
            /\ tree.num_leaves = lastAppend.pre.num_leaves
            /\ tree.frontier = lastAppend.pre.frontier
            /\ root(tree) = root(lastAppend.pre)

\* an append on a tree holding 2^TREE_DEPTH leaves was rejected
C10_Witness ==
    /\ lastAppend.op = "append"
    /\ ~lastAppend.ok
    /\ lastAppend.pre.num_leaves = Capacity

\* C11: prove(position) fails with the position-out-of-bounds error if and
\* only if position >= num_leaves; otherwise it returns a proof carrying that
\* position and exactly TREE_DEPTH sibling hashes; the tree is unchanged in
\* both cases.
C11_ProveResult ==
    held.status # "none" =>
        /\ held.status = "err" <=> held.asked >= held.issuedAt
        /\ held.status = "err" => held.err = "MerkleError(Position out of bounds)"
        /\ held.status = "ok" =>
            /\ held.proof.position = held.asked
            /\ Len(held.proof.path) = TREE_DEPTH

C11_ProveBounds == []C11_ProveResult /\ [][held' # held => tree' = tree]_vars

\* prove was called with position = num_leaves on a non-empty tree and failed
C11_Witness ==
    /\ held.status = "err"
    /\ held.asked = held.issuedAt
    /\ held.issuedAt > 0

\* values an attacker may put in place of a leaf, a root or a sibling
ForgedNodes ==
    LeafNodes \cup {empty_hashes(l) : l \in 0..TREE_DEPTH}
              \cup {root(tree), IdealRoot(leaves), held.anchor}
              \cup Range(held.proof.path)

\* C12: if verify(leaf, root) is true for a proof, then verify with a
\* different leaf, with a different root, or with one sibling hash of the
\* path altered is false.
C12_VerifyBinds ==
    (held.status = "ok" /\ verify(held.proof, held.leaf, held.anchor)) =>
        /\ \A l \in ForgedNodes \ {held.leaf} : ~verify(held.proof, l, held.anchor)
        /\ \A r \in ForgedNodes \ {held.anchor} : ~verify(held.proof, held.leaf, r)
        /\ \A i \in DOMAIN held.proof.path :
             \A sib \in ForgedNodes \ {held.proof.path[i]} :
                ~verify([held.proof EXCEPT !.path[i] = sib], held.leaf, held.anchor)

\* a proof for a leaf other than the first one verified when it was issued
C12_Witness ==
    /\ held.status = "ok"
    /\ held.proof.position > 0
    /\ verify(held.proof, held.leaf, held.anchor)

\* ---------------------------------------------------- derivation claims
\* C13: derive_nullifier(nk, note, position) is deterministic, and the same
\* key and note at two different positions derive different nullifiers.
C13_PositionSeparates ==
    Len(derived) = 2 =>
        LET a == derived[1]
            b == derived[2]
        IN  (a.nk = b.nk /\ a.note = b.note) =>
                (a.nullifier = b.nullifier <=> a.position = b.position)

\* two calls with one key and one note at positions that agree in the low byte
C13_Witness ==
    /\ Len(derived) = 2
    /\ derived[1].nk = derived[2].nk
    /\ derived[1].note = derived[2].note
    /\ derived[1].position = derived[2].position + 256
    /\ derived[1].nullifier # derived[2].nullifier

\* C14: for one key and one position, two notes whose commitments differ
\* (same asset id) derive different nullifiers.
C14_CommitmentSeparates ==
    Len(derived) = 2 =>
        LET a == derived[1]
            b == derived[2]
        IN  (/\ a.nk = b.nk
             /\ a.position = b.position
             /\ a.note.asset_id = b.note.asset_id
             /\ commitment(a.note).inner # commitment(b.note).inner)
            => a.nullifier # b.nullifier

\* ------------------------------------------- NullifierSet claims, continued
\* C15: the nullifier set only grows: a nullifier that is spent stays spent
\* after any spend, spend_batch or restore, successful or failed, and the
\* number of spent nullifiers never decreases.
C15_SetGrows ==
    [][/\ \A n \in Nullifiers : is_spent(spent, n) => is_spent(spent', n)
       /\ Cardinality(spent) <= Cardinality(spent')]_vars

\* a restore from a list that leaves out a spent nullifier has kept it
C15_Witness ==
    /\ last.op = "restore"
    /\ \E n \in last.pre : n \notin Range(last.args) /\ is_spent(spent, n)

\* C16: restoring the list all_nullifiers() returns for a set S into a new
\* empty set gives a set of the same size that agrees with S on is_spent.
C16_RoundTrip ==
    restored.done =>
        /\ Cardinality(restored.spent) = Cardinality(restored.from)
        /\ \A n \in Nullifiers : is_spent(restored.spent, n) <=> is_spent(restored.from, n)

\* a set of two or more was exported in an order that is not ascending
C16_Witness ==
    /\ restored.done
    /\ Cardinality(restored.from) >= 2
    /\ restored.saved[1] > restored.saved[2]
    /\ restored.spent = restored.from

\* C17: root_hash depends on the membership of the set only: whatever order
\* the members are iterated in (whatever order or batches they were spent
\* in), the digest is the same.
C17_RootHashByMembership ==
    lastRoot.called =>
        \A nullifiers \in all_nullifiers(lastRoot.members) :
            root_hash(nullifiers) = lastRoot.hash

\* root_hash was taken of three members iterated in an order that is not sorted
C17_Witness ==
    /\ lastRoot.called
    /\ Cardinality(lastRoot.members) = 3
    /\ lastRoot.order[1] > lastRoot.order[2]
    /\ lastRoot.hash = root_hash(sort_by_key(lastRoot.order))

\* C18: spending a nullifier that is already in the set fails with the
\* dedicated DoubleSpend error kind, which is neither OperationFailed nor
\* InvalidProof.
C18_DoubleSpendKind ==
    (last.op \in {"spend", "spend_batch"} /\ ~last.ok) =>
        /\ last.err = "DoubleSpend"
        /\ "DoubleSpend" \in CryptoError

\* --------------------------------------------------------------- key claims
\* C19: FullKeys::from_seed is deterministic, and two different seeds yield
\* different spending keys and different nullifier keys, whatever digest the
\* collision-free hash produces for each seed.
C19_SeedsSeparate ==
    /\ \A seed \in Seeds : \A i, j \in DOMAIN fullKeys[seed] :
           fullKeys[seed][i] = fullKeys[seed][j]
    /\ \A s1, s2 \in Seeds :
           (s1 # s2 /\ fullKeys[s1] # <<>> /\ fullKeys[s2] # <<>>) =>
               /\ fullKeys[s1][1].spending # fullKeys[s2][1].spending
               /\ fullKeys[s1][1].nullifier # fullKeys[s2][1].nullifier

\* -------------------------------------------------------------- note claims
\* C20: commitment() of a note built by any constructor is the Pedersen
\* commitment to (value, randomness) paired with the asset id; every call
\* returns the same, also after the note was serialized and deserialized.
C20_CommitmentIsComputed ==
    curNote.built =>
        LET computed == [inner |-> commit_with_blinding(curNote.value, curNote.randomness),
                         asset_id |-> curNote.asset_id]
        IN  /\ commitment(curNote) = computed
            /\ \A c \in seen : c = computed

\* C21: is_dummy() is true for Note::dummy() and false for every note that
\* differs from Note::dummy() in value, asset id, owner, blinding or memo.
C21_DummyRecognised ==
    curNote.built =>
        (is_dummy(curNote) <=>
            /\ curNote.value = dummy.value
            /\ curNote.asset_id = dummy.asset_id
            /\ curNote.owner = dummy.owner
            /\ curNote.randomness = dummy.randomness
            /\ curNote.memo = dummy.memo)

\* ------------------------------------------------------- commitment claims
\* C22: for all u64 v1, v2 and blindings r1, r2, commit(v1, r1) + commit(v2, r2)
\* equals commit(v1 + v2, r1 + r2) with v1 + v2 computed as a u64, also when
\* the sum exceeds u64::MAX.
C22_HomomorphicAllU64 ==
    homo.done =>
        /\ homo.sum_value.ok
        /\ homo.sum_comm = commit_with_blinding(homo.sum_value.value, homo.sum_blinding)

\* C22 amended: the same for all v1, v2 whose sum does not exceed u64::MAX.
C22_HomomorphicInRange ==
    (homo.done /\ homo.v1 + homo.v2 <= U64Max) =>
        /\ homo.sum_value.ok
        /\ homo.sum_comm = commit_with_blinding(homo.sum_value.value, homo.sum_blinding)

\* two commitments to non-zero values with non-zero blindings were added,
\* the values summing to u64::MAX
C22_Witness ==
    /\ homo.done
    /\ homo.v1 > 0 /\ homo.v2 > 0 /\ homo.r1 > 0 /\ homo.r2 > 0
    /\ homo.v1 + homo.v2 = U64Max
    /\ homo.sum_comm = commit_with_blinding(U64Max, homo.sum_blinding)

\* -------------------------------------- signature, encryption, codec claims
\* C23: PublicKey::verify(message, signature) is true only when the signature
\* was produced by sign(message) with the spending key of that public key;
\* against another message or another public key it is false.
C23_VerifyBinds ==
    (sigCheck.done /\ sigCheck.result) =>
        /\ sigCheck.signer = sigCheck.key
        /\ sigCheck.signed = sigCheck.message

\* C24: decryption fails closed: decrypt_note and Note::decrypt return an
\* error for an EncryptedNote whose tag does not authenticate under the
\* viewing key (the tag was changed, or the note was encrypted to another
\* key), never Ok with a zero-valued plaintext.
C24_DecryptFailsClosed ==
    (decrypted.done /\ (decrypted.tampered \/ decrypted.recipient # decrypted.reader)) =>
        /\ ~decrypted.raw.ok
        /\ ~decrypted.result.ok

\* C25: for every valid Point, Commitment and PublicKey x,
\* from_bytes(to_bytes(x)) = x, two different values have different
\* encodings, and from_bytes rejects at least one malformed 32-byte string.
C25_BytesRoundTrip ==
    codec.done =>
        /\ codec.decoded.ok /\ codec.decoded.value = codec.x
        /\ codec.x # codec.y => codec.x_bytes # codec.y_bytes
        /\ codec.rejected # {}

\* ------------------------------------------------------- resource claims
\* C29: each append performs at most TREE_DEPTH node-hash combinations, and
\* the frontier the tree retains never holds more than TREE_DEPTH nodes,
\* whatever the number of leaves already appended.
C29_AppendBounded ==
    /\ Len(tree.frontier) <= TREE_DEPTH
    /\ (lastAppend.op = "append" /\ lastAppend.ok) =>
            hash_calls(lastAppend.pre.num_leaves, 0) <= TREE_DEPTH

\* an append at an odd position combined at least two pairs of nodes and the
\* tree retains a frontier
C29_Witness ==
    /\ lastAppend.op = "append" /\ lastAppend.ok
    /\ hash_calls(lastAppend.pre.num_leaves, 0) >= 2
    /\ Len(tree.frontier) >= 1
    /\ tree.num_leaves >= 4

\* ----------------------------------------------------- verifier claims
\* C26: verify_halo2(proof) returns the InvalidProof error exactly when no
\* verification key with id proof.vk_id has been registered; once
\* register_vk(vk) has run, every later verify_halo2 of a proof naming vk.id()
\* finds that key; and verification never changes the registry.
C26_RegistryLookup ==
    /\ lastVerify.op = "verify_halo2" =>
        /\ (~lastVerify.result.ok /\ lastVerify.result.err = "InvalidProof")
                <=> lastVerify.proof.vk_id \notin lastVerify.known
        /\ lastVerify.proof.vk_id \in lastVerify.known =>
                /\ lastVerify.proof.vk_id \in DOMAIN lastVerify.pre
                /\ id(lastVerify.pre[lastVerify.proof.vk_id]) = lastVerify.proof.vk_id
                /\ lastVerify.result.ok
    /\ lastVerify.op \in {"verify_halo2", "verify_transaction"} => vks = lastVerify.pre

\* a proof naming the first of two registered keys was verified and found it
C26_Witness ==
    /\ lastVerify.op = "verify_halo2"
    /\ Cardinality(lastVerify.known) >= 2
    /\ lastVerify.proof.vk_id = Blake3Hash(1)
    /\ lastVerify.result.ok

\* C27: verify_transaction returns true only if every spend proof and every
\* output proof verifies and the binding signature and value balance check
\* passes; a transaction whose value commitments do not balance to zero is
\* never accepted.
C27_TransactionBalanced ==
    (/\ lastVerify.op = "verify_transaction"
     /\ lastVerify.result.ok /\ lastVerify.result.value) =>
        /\ \A i \in 1..Len(lastVerify.tx.spend_proofs) :
                verify_halo2(lastVerify.pre, lastVerify.tx.spend_proofs[i]).ok
        /\ \A i \in 1..Len(lastVerify.tx.output_proofs) :
                verify_halo2(lastVerify.pre, lastVerify.tx.output_proofs[i]).ok
        /\ lastVerify.tx.binding_sig.signature = "valid"
        /\ lastVerify.tx.net_value = lastVerify.tx.binding_sig.value_balance

\* ------------------------------------------------------- batch tree claims
\* C28: stage and root never change the committed tree (leaf count, frontier,
\* root), and root() called with staged leaves returns exactly the root the
\* committed tree has after commit() appends those leaves in staging order.
C28_ProvisionalRoot ==
    /\ lastBatch.op \in {"stage", "root"} =>
        /\ batch.tree = lastBatch.pre.tree
        /\ root(batch.tree) = root(lastBatch.pre.tree)
    /\ lastBatch.op = "root" => batch = lastBatch.pre
    /\ (lastBatch.op = "commit" /\ lastBatch.ok /\ lastBatch.pre.pending_leaves # <<>>) =>
        BatchMerkleTree_root(lastBatch.pre) = root(batch.tree)

\* a commit appended two staged leaves to a tree that already held leaves
C28_Witness ==
    /\ lastBatch.op = "commit" /\ lastBatch.ok
    /\ Len(lastBatch.pre.pending_leaves) = 2
    /\ lastBatch.pre.tree.num_leaves >= 1
    /\ batch.tree.num_leaves = lastBatch.pre.tree.num_leaves + 2
    /\ root(batch.tree) # root(lastBatch.pre.tree)

\* C30: commit is all-or-nothing: if it fails because the tree becomes full
\* part-way through the staged leaves, the committed tree and the staged list
\* are left exactly as before the call.
C30_CommitAllOrNothing ==
    (lastBatch.op = "commit" /\ ~lastBatch.ok) => batch = lastBatch.pre

\* ---------------------------------------- further IncrementalMerkleTree claims
\* C31: the root binds every appended leaf: two leaf sequences of the same
\* length that differ in at least one position produce different roots.
C31_RootBindsLeaves ==
    (Len(leaves) = Len(leavesB) /\ leaves # leavesB) => root(tree) # root(treeB)

\* the path of a proof whose siblings are all empty subtrees
EmptyPath == [i \in 1..TREE_DEPTH |-> empty_hashes(i - 1)]

\* proofs an attacker may present: the path of the held proof or the empty
\* path, with any position up to twice the capacity
ForgedProofs ==
    [path : {held.proof.path, EmptyPath}, position : 0..(2 * Capacity - 1)]

\* C32: membership proofs are sound against the tree's own root: for any
\* proof, honest or forged, with position p, verify(leaf, tree.root()) is true
\* only if p < num_leaves and leaf is the leaf that was appended at position p.
C32_ProofSound ==
    \A proof \in ForgedProofs, leaf \in ForgedNodes \cup Range(tree.frontier) :
        verify(proof, leaf, root(tree)) =>
            /\ proof.position < tree.num_leaves
            /\ leaf = leaves[proof.position + 1]

\* the level at which the walk of update_frontier stops for a leaf appended
\* at position index (TREE_DEPTH if the index is odd at every level)
StopLevel(index) == hash_calls(index, 0)

\* C33: on append the walk stops at the first level where the running index
\* is even; the running hash is stored as the frontier entry of that level,
\* only frontier entries below that level are discarded, and frontier entries
\* at higher levels are left unchanged.
C33_FrontierEntryAtLevel ==
    (lastAppend.op = "append" /\ lastAppend.ok) =>
        LET pre == lastAppend.pre
            level == StopLevel(pre.num_leaves)
            stored == frontier_walk(pre, lastAppend.leaf, pre.num_leaves, 0)
        IN  level < TREE_DEPTH =>
                /\ Len(tree.frontier) > level
                /\ tree.frontier[level + 1] = stored[1]
                /\ \A i \in (level + 2)..Len(pre.frontier) :
                        /\ i <= Len(tree.frontier)
                        /\ tree.frontier[i] = pre.frontier[i]

\* C34: in every reachable tree state with num_leaves > 0 the frontier is
\* non-empty, so root() and prove() never index the frontier or the
\* empty-hash table out of range and never underflow frontier.len() - 1, for
\* every leaf count from 1 to 2^TREE_DEPTH.
C34_FrontierNonEmpty ==
    /\ tree.num_leaves > 0 => Len(tree.frontier) > 0
    /\ root_in_range(tree)
    /\ root(tree) # Panic
    /\ \A position \in 0..(Capacity - 1) : prove_in_range(tree, position)

\* the tree is full and still retains a frontier
C34_Witness ==
    /\ tree.num_leaves = Capacity
    /\ Len(tree.frontier) > 0
    /\ lastAppend.op = "append" /\ lastAppend.ok

\* C35: every successful append changes the root: for every tree state,
\* the empty tree included, and every leaf value, root() after append(leaf)
\* differs from root() before it.
C35_AppendChangesRoot ==
    (lastAppend.op = "append" /\ lastAppend.ok) => root(tree) # root(lastAppend.pre)

\* ------------------------------------------------------ durability claim
\* C36: spent nullifiers are durable: a nullifier accepted by spend or
\* spend_batch is reported as spent by a PersistentNullifierSet later opened
\* with the same db_path, and spending it again on the reopened set fails.
C36_SpentIsDurable ==
    /\ \A n \in store.accepted : is_spent(store.set, n)
    /\ (/\ store.last.op \in {"spend", "spend_batch"}
        /\ \E i \in DOMAIN store.last.ns : store.last.ns[i] \in store.last.known)
            => ~store.last.ok


\* C37: for every stored pool, the LP balances of all accounts add up to the
\* pool's total_supply
C37_LpAccounting ==
    \A p \in DOMAIN amm.pools : LpSum(amm, p) = amm.pools[p].total_supply

\* C38: a successful swap does not decrease reserve0 * reserve1, adds exactly
\* amount_in to the reserve of token_in, takes exactly amount_out from the
\* other reserve, with amount_out >= amount_out_min, and leaves total_supply
\* and every LP balance as they were
C38_SwapKeepsProduct ==
    [][(lastCall'.op = "swap" /\ lastCall'.ok) =>
        LET before == amm.pools[lastCall'.pool_id]
            after == amm'.pools[lastCall'.pool_id]
            amount_in == lastCall'.amount0
            amount_out == lastCall'.amount1
            zero_in == lastCall'.token_in = before.token0
        IN  /\ after.reserve0 * after.reserve1 >= before.reserve0 * before.reserve1
            /\ amount_out >= lastCall'.minimum
            /\ IF zero_in
               THEN /\ after.reserve0 = before.reserve0 + amount_in
                    /\ after.reserve1 = before.reserve1 - amount_out
               ELSE /\ after.reserve1 = before.reserve1 + amount_in
                    /\ after.reserve0 = before.reserve0 - amount_out
            /\ after.total_supply = before.total_supply
            /\ amm'.lp_balances = amm.lp_balances]_vars

\* a swap has succeeded, paid out tokens and met a non-zero minimum
C38_Witness ==
    /\ lastCall.op = "swap"
    /\ lastCall.ok
    /\ lastCall.amount1 > 0
    /\ lastCall.minimum > 0

\* C39: create_pool for a pair that already has a pool fails with
\* PoolAlreadyExists, and no two stored pools are for the same pair
C39_OnePoolPerPair ==
    /\ (lastCall.op = "create_pool" /\ lastCall.existed) =>
           (~lastCall.ok /\ lastCall.err = "PoolAlreadyExists")
    /\ \A p, q \in DOMAIN amm.pools :
           p # q => {amm.pools[p].token0, amm.pools[p].token1}
                        # {amm.pools[q].token0, amm.pools[q].token1}

\* C40: every successful add_liquidity mints a strictly positive number of LP
\* tokens
C40_PositiveMint ==
    (lastCall.op = "add_liquidity" /\ lastCall.ok) => lastCall.lp_tokens > 0

====
